---- MODULE Spec2Model ----
(***************************************************************************)
(* Model of the authenticated API access layer of veeam-mcp-server         *)
(* (src/src/server.js): the VeeamClient token lifecycle (ensureToken,      *)
(* login, refresh), the authenticated GET with its single 401 retry (get), *)
(* the pagination loop (getList), the input schemas of the tools and the   *)
(* size guardrail on what they return (truncatePayload).                   *)
(*                                                                         *)
(* Every tool invocation is a task.  A task runs atomically from one await *)
(* to the next (the JavaScript event loop), so each action below is "the   *)
(* awaited response arrives and the code runs up to its next await".  pc   *)
(* names the request a task is waiting on.  Times are in milliseconds.     *)
(***************************************************************************)
EXTENDS Integers, Sequences, FiniteSets, TLC

VARIABLES client, now, task

vars == <<client, now, task>>

(***************************************************************************)
(* Program constants                                                       *)
(***************************************************************************)
\* server.js:25  const MAX_BYTES = 1_000_000
MAX_BYTES == 1000000
\* server.js:26  const MAX_ITEMS = 1000
MAX_ITEMS == 1000
\* server.js:52  now < (this.expiresAt - 30_000)
SafetyMarginMs == 30000
\* server.js:86  ... : 10 * 60 * 1000
FallbackLifetimeMs == 10 * 60 * 1000
\* server.js:160 / 167  limit = 100, Math.min(..., 100)
DefaultLimit == 100
\* server.js:210  Object.keys(payload).slice(0, 50)
FallbackKeys == 50

(***************************************************************************)
(* Bounds of the model                                                     *)
(***************************************************************************)
\* within one aggregation the upstream returns at most this many pages that
\* are longer than the page size asked for
MaxLongPages == 1
\* in Spec a listing has at most this many full pages
MaxFullPages == 1
\* tasks (concurrent tool invocations) the model holds
NumTasks == 2

Tasks == 1..NumTasks

\* the instants at which the clock is read (Date.now()), in milliseconds
Times == {0, 550000, 575000, 1200000}

(***************************************************************************)
(* Values                                                                  *)
(***************************************************************************)
\* null / undefined / a field missing from a JSON body
NULL == "<absent>"

\* JavaScript truthiness of a token value (null, undefined and "" are falsy)
Truthy(v) == v # NULL /\ v # ""

\* an optional number: <<>> is undefined, <<v>> is v
Undefined == <<>>
Some(v) == <<v>>

\* destructuring default, server.js:160 (applies to undefined only)
OrDefault(x, d) == IF x = Undefined THEN d ELSE x[1]

\* expires_in as found in a token response, and the results of Number()
ExpAbsent == [k |-> "absent", v |-> 0]
ExpNum(n) == [k |-> "num", v |-> n]
ExpNaN == [k |-> "nan", v |-> 0]
ExpInf == [k |-> "inf", v |-> 0]

\* run-length encoding of a sequence of elements: <<value, count>> runs, no
\* run empty and no two neighbours of the same value
RECURSIVE RunsLen(_)
RunsLen(r) == IF r = <<>> THEN 0 ELSE Head(r)[2] + RunsLen(Tail(r))

Run(v, c) == IF c > 0 THEN <<<<v, c>>>> ELSE <<>>

\* a followed by b
Concat(a, b) ==
  IF a = <<>> THEN b
  ELSE IF b = <<>> THEN a
  ELSE IF a[Len(a)][1] = b[1][1]
    THEN SubSeq(a, 1, Len(a) - 1)
         \o <<<<b[1][1], a[Len(a)][2] + b[1][2]>>>>
         \o Tail(b)
  ELSE a \o b

\* Array.prototype.slice(0, k) / String.prototype.slice(0, k)
RECURSIVE TakeRuns(_, _)
TakeRuns(r, k) ==
  IF k <= 0 \/ r = <<>> THEN <<>>
  ELSE IF Head(r)[2] >= k THEN <<<<Head(r)[1], k>>>>
  ELSE <<Head(r)>> \o TakeRuns(Tail(r), k - Head(r)[2])

\* a JSON value returned by a resource GET.  kind is "array" (n elements),
\* "object" (items / data give the length of that field when it is an array,
\* -1 when it is not; keys are its other keys, in insertion order), "string"
\* (n characters), "scalar" or "null"; "none" is no value at all.
\* elems are the elements of the array (the characters of the string); for an
\* object, those of its items field when that is an array, else of its data
\* field.  w is the serialized length of each element and of each other
\* "key":value entry.
Value(kind, n, items, data, keys, w, elems) ==
  [kind |-> kind, n |-> n, items |-> items, data |-> data,
   keys |-> keys, w |-> w, elems |-> elems]
Page(kind, n, items, data) ==
  Value(kind, n, items, data, <<>>, 1,
        Run(0, IF kind = "array" THEN n ELSE IF items >= 0 THEN items ELSE data))
NoValue == Page("none", 0, -1, -1)
ArrayPage(n) == Page("array", n, -1, -1)
ObjectPage(items, data) == Page("object", 0, items, data)

\* a field of a tool's input as the caller wrote it: left out, an integer, a
\* number that is no integer, a string, a boolean, null
RawAbsent == [k |-> "absent", v |-> 0]
RawInt(n) == [k |-> "int", v |-> n]
RawFrac == [k |-> "frac", v |-> 0]
RawStr == [k |-> "str", v |-> 0]
\* the empty string ""
RawEmptyStr == [k |-> "str", v |-> -1]
RawBool(b) == [k |-> "bool", v |-> IF b THEN 1 ELSE 0]
RawNull == [k |-> "null", v |-> 0]

\* an outbound HTTP request: its method and what its URL names
NoReq == [method |-> "", url |-> ""]
\* server.js:69-77 / 96-104  fetch(`${baseUrl}/api/v3/token`, { method: "POST", ... })
TokenPost == [method |-> "POST", url |-> "token"]
\* server.js:129-136 / 141-148  fetch(this.buildUrl(path, query), { headers })
ResourceGet == [method |-> "GET", url |-> "resource"]

NoError == [kind |-> "none", status |-> 0, text |-> ""]
\* server.js:280 / 295  the ZodError thrown by schema.parse
ValidationError == [kind |-> "validation", status |-> 0, text |-> ""]
\* server.js:80  new Error(`Veeam auth failed (${res.status}): ${text}`)
AuthError(status, text) == [kind |-> "auth", status |-> status, text |-> text]
\* server.js:153 new Error(`Veeam GET ${path} failed (${res.status}): ${text}`)
GetError(status, text) == [kind |-> "get", status |-> status, text |-> text]
\* fetch() or res.json() rejected
ThrownError == [kind |-> "thrown", status |-> 0, text |-> ""]
\* server.js:172 reading page.items of null
TypeError == [kind |-> "type", status |-> 0, text |-> ""]

\* server.js:78 / 105 / 151  res.ok
IsOk(status) == status >= 200 /\ status <= 299

\* server.js:79 mutated: the .catch is missing, the text is used as read
BodyTextNoCatch(resp) == resp.text

\* server.js:79 / 152  await res.text().catch(()=>"")
BodyText(resp) == IF resp.textFails THEN "" ELSE resp.text

(***************************************************************************)
(* Input schemas                                                           *)
(***************************************************************************)
\* z.number().int().min(lo).optional()
OptionalIntMin(x, lo) == x.k = "absent" \/ (x.k = "int" /\ x.v >= lo)
\* z.number().int().min(lo).max(hi).optional()
OptionalIntRange(x, lo, hi) ==
  x.k = "absent" \/ (x.k = "int" /\ x.v >= lo /\ x.v <= hi)
\* z.string().optional() / z.boolean().optional()
OptionalOf(x, kind) == x.k = "absent" \/ x.k = kind

\* server.js:29-36 mutated: .strict() is missing
ListInputSchemaLoose(a) ==
  /\ OptionalIntMin(a.offset, 0)
  /\ OptionalIntRange(a.limit, 1, DefaultLimit)
  /\ OptionalOf(a.filter, "str")
  /\ OptionalOf(a.all, "bool")

\* server.js:29-36  listInputSchema; filter stands for filter, sort and
\* search, extra says that the input has a key the schema does not know
\* (id is such a key)
ListInputSchema(a) ==
  /\ OptionalIntMin(a.offset, 0)
  /\ OptionalIntRange(a.limit, 1, DefaultLimit)
  /\ OptionalOf(a.filter, "str")
  /\ OptionalOf(a.all, "bool")
  /\ a.id.k = "absent"
  /\ ~a.extra

\* server.js:287-289  z.object({ id: z.string() }).strict()
IdSchema(a) ==
  /\ a.id.k = "str"
  /\ a.offset.k = "absent" /\ a.limit.k = "absent"
  /\ a.filter.k = "absent" /\ a.all.k = "absent"
  /\ ~a.extra

\* the parsed value of an optional number
ParsedNumber(x) == IF x.k = "int" THEN Some(x.v) ELSE Undefined

\* the parsed value of an optional string: "" or a string with something in it
ParsedString(x) ==
  IF x = RawEmptyStr THEN Some("")
  ELSE IF x.k = "str" THEN Some("x")
  ELSE Undefined

(***************************************************************************)
(* Token Manager: pure parts                                               *)
(***************************************************************************)
\* server.js:52 mutated: 300_000 written for 30_000
TokenFreshWideMargin(c, t) ==
  Truthy(c.accessToken) /\ t < c.expiresAt - 10 * SafetyMarginMs

\* server.js:52  this.accessToken && now < (this.expiresAt - 30_000)
TokenFresh(c, t) == Truthy(c.accessToken) /\ t < c.expiresAt - SafetyMarginMs

\* server.js:85  Number(data.expires_in || 0)
ExpiresInNumber(e) ==
  IF e.k = "absent" THEN ExpNum(0)
  ELSE IF e.k = "num" /\ e.v = 0 THEN ExpNum(0)
  ELSE e

\* server.js:86 mutated: the test expiresIn > 0 is missing
LifetimeMsNoSignTest(e) ==
  LET x == ExpiresInNumber(e)
  IN IF x.k = "num" THEN x.v * 1000 ELSE FallbackLifetimeMs

\* server.js:86  isFinite(expiresIn) && expiresIn > 0 ? expiresIn * 1000 : 10*60*1000
LifetimeMs(e) ==
  LET x == ExpiresInNumber(e)
  IN IF x.k = "num" /\ x.v > 0 THEN x.v * 1000 ELSE FallbackLifetimeMs

\* server.js:86 mutated: an expiry later than the new one is kept
StoreTokensKeepsLaterExpiry(c, data, t) ==
  [c EXCEPT !.accessToken = data.access_token,
            !.refreshToken = IF Truthy(data.refresh_token)
                               THEN data.refresh_token
                             ELSE c.refreshToken,
            !.expiresAt = IF c.expiresAt > t + LifetimeMs(data.expires_in)
                            THEN c.expiresAt
                          ELSE t + LifetimeMs(data.expires_in)]

\* server.js:110 mutated: this.refreshToken = data.refresh_token
StoreTokensDropsRefresh(c, data, t) ==
  [c EXCEPT !.accessToken = data.access_token,
            !.refreshToken = data.refresh_token,
            !.expiresAt = t + LifetimeMs(data.expires_in)]

\* server.js:83-86 and 109-112: the state update of a successful login / refresh
StoreTokens(c, data, t) ==
  [c EXCEPT !.accessToken = data.access_token,
            !.refreshToken = IF Truthy(data.refresh_token)
                               THEN data.refresh_token
                             ELSE c.refreshToken,
            !.expiresAt = t + LifetimeMs(data.expires_in)]

\* server.js:105-106 mutated: throw new Error(...) written for return false
RefreshOutcomeRaises(resp) ==
  IF resp.kind = "thrown" THEN "thrown"
  ELSE IF ~IsOk(resp.status) THEN "thrown"
  ELSE "ok"

\* server.js:96-113: how refresh() ends on the answer to its POST: the fetch
\* or res.json() rejects ("thrown"), it returns false ("fail"), or it stores
\* the tokens and returns true ("ok")
RefreshOutcome(resp) ==
  IF resp.kind = "thrown" THEN "thrown"
  ELSE IF ~IsOk(resp.status) THEN "fail"
  ELSE "ok"

\* server.js:54 mutated: the refresh token is not looked at, login it is
HasRefreshTokenNever(c) == FALSE

\* server.js:54  if (this.refreshToken)
HasRefreshToken(c) == Truthy(c.refreshToken)

\* server.js:52 mutated: the token is taken to be fresh whatever it is
EnsureDecisionAlwaysFresh(c, t) == "fresh"

\* server.js:49-58: what ensureToken does first
EnsureDecision(c, t) ==
  IF TokenFresh(c, t) THEN "fresh"
  ELSE IF HasRefreshToken(c) THEN "refresh"
  ELSE "login"

\* server.js:137 mutated: every failed GET is retried
ShouldRetryAnyFailure(status) == ~IsOk(status)

\* server.js:137  if (res.status === 401)
ShouldRetry(status) == status = 401

\* server.js:120 mutated: the test v !== "" is missing
BuildUrlKeepsEmpty(query) ==
  {k \in {"offset", "limit", "filter"} : query[k] # Undefined}

\* server.js:117-123  buildUrl(path, query): the names of the query parameters
\* in the URL, those whose value is not undefined, null or "".  offset and
\* limit are numbers or undefined; filter, a string or undefined, stands for
\* filter, sort and search.
BuildUrl(query) ==
  {k \in {"offset", "limit"} : query[k] # Undefined}
  \cup {k \in {"filter"} : query[k] # Undefined /\ query[k] # Some("")}

(***************************************************************************)
(* Pagination Aggregator: pure parts                                       *)
(***************************************************************************)
Min(a, b) == IF a < b THEN a ELSE b
Max(a, b) == IF a > b THEN a ELSE b

\* server.js:167 mutated: Math.min(Math.max(1, limit), 100)
PageLimitNoDefault(limit) == Min(Max(1, limit), DefaultLimit)

\* server.js:167  Math.min(Math.max(1, limit || 100), 100)
PageLimit(limit) ==
  Min(Max(1, IF limit = 0 THEN DefaultLimit ELSE limit), DefaultLimit)

\* server.js:171-174: the length of the array found in the page, -1 for null
DetectItems(page) ==
  IF page.kind = "array" THEN page.n
  ELSE IF page.kind = "object" /\ page.items >= 0 THEN page.items
  ELSE IF page.kind = "object" /\ page.data >= 0 THEN page.data
  ELSE -1

\* server.js:180 mutated: the test of the cap is missing
LoopEndsShortPageOnly(accLen, itemsLen, pageLimit) == itemsLen < pageLimit

\* server.js:180  acc.length >= MAX_ITEMS || items.length < pageLimit
LoopEnds(accLen, itemsLen, pageLimit) ==
  accLen >= MAX_ITEMS \/ itemsLen < pageLimit

\* server.js:179 mutated: acc.unshift(...items)
PushItemsFront(acc, items) == Concat(items, acc)

\* server.js:179  acc.push(...items)
PushItems(acc, items) == Concat(acc, items)

\* server.js:181 mutated: the offset is not advanced
NextOffsetSame(currentOffset, pageLimit) == currentOffset

\* server.js:181  currentOffset += pageLimit
NextOffset(currentOffset, pageLimit) == currentOffset + pageLimit

\* server.js:185 mutated: the accumulator is returned whole
SliceLenNoCap(accLen) == accLen

\* server.js:185  acc.slice(0, MAX_ITEMS): the length of the slice
SliceLen(accLen) == Min(accLen, MAX_ITEMS)

(***************************************************************************)
(* Guardrail: pure parts                                                   *)
(***************************************************************************)
\* the length of the JSON text of an array of n elements of w characters each
ArrayLen(n, w) == 2 + n * w + Max(n - 1, 0)

\* server.js:220-226  safeStringify(obj).length.  "items": and "data": are 8
\* and 7 characters, a string gets its two quotes, null is 4 characters.
StringifyLen(v) ==
  IF v.kind = "array" THEN ArrayLen(v.n, v.w)
  ELSE IF v.kind = "string" THEN v.n + 2
  ELSE IF v.kind = "null" THEN 4
  ELSE IF v.kind = "scalar" THEN 1
  ELSE IF v.kind = "object"
    THEN LET i == IF v.items >= 0 THEN 1 ELSE 0
             d == IF v.data >= 0 THEN 1 ELSE 0
             k == RunsLen(v.keys)
         IN 2 + i * (8 + ArrayLen(v.items, v.w))
              + d * (7 + ArrayLen(v.data, v.w))
              + k * v.w
              + Max(i + d + k - 1, 0)
  ELSE 0

\* server.js:199  the note; Math.round(1_000_000 / 1024) is 977
TruncationNote == "Response truncated to guardrail limits (~977KB)."

\* server.js:204-207 mutated: data is looked at before items
ShrinkDataFirst(p) ==
  IF p.kind = "array"
    THEN [p EXCEPT !.n = Min(p.n, MAX_ITEMS),
                   !.elems = TakeRuns(@, Min(p.n, MAX_ITEMS))]
  ELSE IF p.kind = "object" /\ p.data >= 0
    THEN [p EXCEPT !.data = Min(p.data, MAX_ITEMS),
                   !.elems = IF p.items >= 0 THEN @
                             ELSE TakeRuns(@, Min(p.data, MAX_ITEMS))]
  ELSE IF p.kind = "object" /\ p.items >= 0
    THEN [p EXCEPT !.items = Min(p.items, MAX_ITEMS),
                   !.elems = TakeRuns(@, Min(p.items, MAX_ITEMS))]
  ELSE IF p.kind = "object"
    THEN [p EXCEPT !.keys = TakeRuns(@, FallbackKeys)]
  ELSE IF p.kind = "string"
    THEN [p EXCEPT !.n = Min(p.n, MAX_BYTES),
                   !.elems = TakeRuns(@, Min(p.n, MAX_BYTES))]
  ELSE p

\* server.js:201-216: the payload cut down according to its shape
Shrink(p) ==
  IF p.kind = "array"
    THEN [p EXCEPT !.n = Min(p.n, MAX_ITEMS),
                   !.elems = TakeRuns(@, Min(p.n, MAX_ITEMS))]
  ELSE IF p.kind = "object" /\ p.items >= 0
    THEN [p EXCEPT !.items = Min(p.items, MAX_ITEMS),
                   !.elems = TakeRuns(@, Min(p.items, MAX_ITEMS))]
  ELSE IF p.kind = "object" /\ p.data >= 0
    THEN [p EXCEPT !.data = Min(p.data, MAX_ITEMS),
                   !.elems = TakeRuns(@, Min(p.data, MAX_ITEMS))]
  ELSE IF p.kind = "object"
    THEN [p EXCEPT !.keys = TakeRuns(@, FallbackKeys)]
  ELSE IF p.kind = "string"
    THEN [p EXCEPT !.n = Min(p.n, MAX_BYTES),
                   !.elems = TakeRuns(@, Min(p.n, MAX_BYTES))]
  ELSE p

\* server.js:193-217 mutated: the note is given only when the shrunk payload
\* differs from the original
TruncatePayloadNoteIfCut(p) ==
  IF StringifyLen(p) <= MAX_BYTES
    THEN [payload |-> p, truncated |-> FALSE, note |-> NULL]
  ELSE [payload |-> Shrink(p), truncated |-> Shrink(p) # p,
        note |-> IF Shrink(p) # p THEN TruncationNote ELSE NULL]

\* server.js:193 mutated: < written for <=
TruncatePayloadStrict(p) ==
  IF StringifyLen(p) < MAX_BYTES
    THEN [payload |-> p, truncated |-> FALSE, note |-> NULL]
  ELSE [payload |-> Shrink(p), truncated |-> TRUE, note |-> TruncationNote]

\* server.js:190-218  truncatePayload(payload)
TruncatePayload(p) ==
  IF StringifyLen(p) <= MAX_BYTES
    THEN [payload |-> p, truncated |-> FALSE, note |-> NULL]
  ELSE [payload |-> Shrink(p), truncated |-> TRUE, note |-> TruncationNote]

\* server.js:229-236  toolResult(obj, note): the NOTE line, if any, and the
\* value whose JSON text follows it
ToolResult(obj, note) == [note |-> note, json |-> obj]

(***************************************************************************)
(* Endpoint table and paths                                                *)
(***************************************************************************)
\* the placeholder of a path template
IdPlaceholder == "{id}"

\* server.js:247-268  endpoints: for each tool its path template, as its
\* segments, and whether it is registered as a list tool
Endpoint(path, list) == [path |-> path, list |-> list]
Endpoints ==
  [list_tenants |-> Endpoint(<<"api", "v3", "tenants">>, TRUE),
   list_backup_servers |->
     Endpoint(<<"api", "v3", "infrastructure", "backupServers">>, TRUE),
   list_jobs |-> Endpoint(<<"api", "v3", "jobs">>, TRUE),
   list_protected_vms |->
     Endpoint(<<"api", "v8", "protectedItem", "virtualMachines">>, TRUE),
   get_vm_details |->
     Endpoint(<<"api", "v8", "protectedItem", "virtualMachines", "{id}">>, FALSE),
   list_repositories |-> Endpoint(<<"api", "v3", "repositories">>, TRUE),
   get_repository |-> Endpoint(<<"api", "v3", "repositories", "{id}">>, FALSE),
   list_sobr |-> Endpoint(<<"api", "v3", "backupInfrastructure", "sobr">>, TRUE),
   get_sobr |->
     Endpoint(<<"api", "v3", "backupInfrastructure", "sobr", "{id}">>, FALSE),
   list_sobr_extents |->
     Endpoint(<<"api", "v3", "backupInfrastructure", "sobr", "{id}", "extents">>,
              TRUE),
   list_object_storage |-> Endpoint(<<"api", "v3", "objectStorage">>, TRUE),
   get_object_storage |->
     Endpoint(<<"api", "v3", "objectStorage", "{id}">>, FALSE),
   list_storage_systems |-> Endpoint(<<"api", "v3", "storageSystems">>, TRUE),
   get_storage_system |->
     Endpoint(<<"api", "v3", "storageSystems", "{id}">>, FALSE)]
ToolNames == DOMAIN Endpoints

\* the strings a caller passes as id: a plain one, one with a reserved
\* character, the placeholder itself, and the empty string
IdTexts == {"42", "a/b", "{id}", ""}

\* server.js:298  encodeURIComponent(String(id)) on IdTexts
EncodeURIComponent(id) ==
  IF id = "a/b" THEN "a%2Fb"
  ELSE IF id = "{id}" THEN "%7Bid%7D"
  ELSE id

\* server.js:298  cfg.path.replace("{id}", x): the first {id} gives way to x
RECURSIVE ReplaceId(_, _)
ReplaceId(path, x) ==
  IF path = <<>> THEN <<>>
  ELSE IF Head(path) = IdPlaceholder THEN <<x>> \o Tail(path)
  ELSE <<Head(path)>> \o ReplaceId(Tail(path), x)

\* server.js:281 / 298-299: the path the handler of tool name passes on: a
\* list tool passes cfg.path as it is, a by-id tool replaces {id}
HandlerPath(name, id) ==
  IF Endpoints[name].list THEN Endpoints[name].path
  ELSE ReplaceId(Endpoints[name].path, EncodeURIComponent(id))

(***************************************************************************)
(* State                                                                   *)
(***************************************************************************)
NoTrunc == [payload |-> NoValue, truncated |-> FALSE, note |-> NULL]
NoReply == ToolResult(NoValue, NULL)
NoQuery == [offset |-> Undefined, limit |-> Undefined, filter |-> Undefined]
NoResp == [status |-> 0, text |-> "", textFails |-> FALSE, body |-> NoValue]

\* A task between invocations.  Real data of the call: op, all, offset, limit,
\* filter (the arguments), path (the path the handler passes to get() or
\* getList(), as its segments), query / params / bearer1 / bearer2 / postRT (what
\* the requests in flight carry: params are the query parameters in the URL
\* of the resource GET), accLen, currentOffset, pageLimit (getList's locals), result,
\* error.  History of the current get(): etrace (the token POSTs ensureToken
\* sent), refreshE / r401 (how the refresh in ensureToken / after the 401
\* ended), nRefresh401 (the refreshes sent after a 401), r401Tok (the access
\* token that refresh returned), nGet, status1, last (the resource GETs and
\* their responses), getOutcome / getValue (how get() ended).
\* trunc is what truncatePayload returned and reply what the tool handed back.
\* req is the last request the task sent; postAt is the time at which the
\* token POST in flight was sent (0 when none is).
\* acc holds the elements of getList's accumulator (accLen is acc.length).
\* History of the current getList(): nPages, accPrev, longPages, aggregated,
\* served (the items the upstream has handed out in its answers).
IdleTask ==
  [pc |-> "idle", op |-> "none", all |-> FALSE,
   offset |-> Undefined, limit |-> Undefined, filter |-> Undefined,
   query |-> NoQuery, params |-> {}, path |-> <<>>,
   req |-> NoReq,
   etrace |-> <<>>, refreshE |-> "none", postRT |-> NULL, postAt |-> 0,
   nGet |-> 0, nRefresh401 |-> 0, bearer1 |-> NULL, bearer2 |-> NULL, status1 |-> 0,
   r401 |-> "none", r401Tok |-> NULL, last |-> NoResp,
   getOutcome |-> "none", getValue |-> NoValue,
   result |-> NoValue, error |-> NoError, trunc |-> NoTrunc, reply |-> NoReply,
   acc |-> <<>>, accLen |-> 0, accPrev |-> 0, currentOffset |-> 0, pageLimit |-> 0,
   nPages |-> 0, longPages |-> 0, aggregated |-> FALSE, served |-> 0]

\* server.js:19-21 and 244: the Credential the client is constructed with
Credential ==
  [baseUrl |-> "https://veeam.example.local", username |-> "user",
   password |-> "pass"]

\* server.js:40-47  constructor
NewClient ==
  [baseUrl |-> Credential.baseUrl, username |-> Credential.username,
   password |-> Credential.password,
   accessToken |-> NULL, refreshToken |-> NULL, expiresAt |-> 0]

Init ==
  /\ client = NewClient
  /\ now = 0
  /\ task = [t \in Tasks |-> IdleTask]

(***************************************************************************)
(* get(): from its entry to the first await                                *)
(***************************************************************************)
\* server.js:129 mutated: the fetch has method: "POST"
SendGet1AsPost(tr, c) ==
  [tr EXCEPT !.pc = "awaitGet1", !.nGet = @ + 1, !.bearer1 = c.accessToken,
             !.params = BuildUrl(tr.query),
             !.req = [method |-> "POST", url |-> "resource"]]

\* server.js:128-136: the first resource GET is sent
SendGet1(tr, c) ==
  [tr EXCEPT !.pc = "awaitGet1", !.nGet = @ + 1, !.bearer1 = c.accessToken,
             !.params = BuildUrl(tr.query),
             !.req = ResourceGet]

\* server.js:126-127 and 49-58: get() is entered with TokenState c at time t
GetEntry(tr, c, t, query) ==
  LET base == [tr EXCEPT !.query = query, !.params = {},
                         !.etrace = <<>>, !.refreshE = "none", !.postRT = NULL,
                         !.postAt = 0,
                         !.nGet = 0, !.nRefresh401 = 0, !.bearer1 = NULL, !.bearer2 = NULL,
                         !.status1 = 0, !.r401 = "none", !.r401Tok = NULL,
                         !.last = NoResp,
                         !.getOutcome = "none", !.getValue = NoValue,
                         !.nPages = tr.nPages + 1]
      d == EnsureDecision(c, t)
  IN IF d = "fresh" THEN SendGet1(base, c)
     ELSE IF d = "refresh"
       THEN [base EXCEPT !.pc = "awaitRefreshE", !.etrace = <<"refresh">>,
                         !.postRT = c.refreshToken, !.postAt = t,
                         !.req = TokenPost]
     ELSE [base EXCEPT !.pc = "awaitLogin", !.etrace = <<"login">>,
                       !.postAt = t, !.req = TokenPost]

(***************************************************************************)
(* get(): its end, and what getList does with the page                     *)
(***************************************************************************)
\* server.js:281-283 / 299-301: getList() or get() resolved to data; the
\* handler passes it through the guardrail and builds its reply
Done(tr, data) ==
  LET g == TruncatePayload(data)
  IN [tr EXCEPT !.pc = "done", !.result = data, !.trunc = g,
                !.reply = ToolResult(g.payload,
                                     IF g.truncated THEN g.note ELSE NULL)]

\* server.js:169-185: one turn of the aggregation loop on a page.  The
\* elements of the aggregate are taken to be as wide as those of its last page.
LoopBody(tr, page) ==
  LET items == DetectItems(page)
      acc == tr.accLen + items
      elems == PushItems(tr.acc, page.elems)
  IN IF page.kind \in {"null"}
       THEN [tr EXCEPT !.pc = "failed", !.error = TypeError]
     ELSE IF items < 0
       THEN Done(tr, page)
     ELSE IF LoopEnds(acc, items, tr.pageLimit)
       THEN Done([tr EXCEPT !.accPrev = tr.accLen, !.accLen = acc,
                            !.acc = elems,
                            !.longPages = IF items > tr.pageLimit THEN @ + 1 ELSE @,
                            !.aggregated = TRUE],
                 Value("array", SliceLen(acc), -1, -1, <<>>,
                       page.w, TakeRuns(elems, SliceLen(acc))))
     ELSE [tr EXCEPT !.pc = "delay", !.accPrev = tr.accLen, !.accLen = acc,
                     !.acc = elems,
                     !.longPages = IF items > tr.pageLimit THEN @ + 1 ELSE @,
                     !.currentOffset = NextOffset(tr.currentOffset, tr.pageLimit)]

\* server.js:162 mutated: the test of all is missing
GetReturnAlwaysLoops(tr, value) ==
  LoopBody([tr EXCEPT !.getOutcome = "resolved", !.getValue = value], value)

\* server.js:155, 163, 169, 299: get() resolves to value
GetReturn(tr, value) ==
  LET r == [tr EXCEPT !.getOutcome = "resolved", !.getValue = value]
  IN IF r.op = "getList" /\ r.all THEN LoopBody(r, value)
     ELSE Done(r, value)

\* server.js:141 mutated: the retried response does not replace the first
GetFinishKeepsFirst(tr, resp) ==
  IF tr.status1 = 401
    THEN [tr EXCEPT !.pc = "failed", !.getOutcome = "rejected",
                    !.error = GetError(401, "")]
  ELSE IF ~IsOk(resp.status)
    THEN [tr EXCEPT !.pc = "failed", !.getOutcome = "rejected",
                    !.error = GetError(resp.status, BodyText(resp))]
  ELSE GetReturn(tr, resp.body)

\* server.js:169 mutated: the get() of a page is wrapped in a try / catch that
\* leaves the loop, and what was accumulated is returned
GetFinishReturnsPartial(tr, resp) ==
  IF ~IsOk(resp.status) /\ tr.op = "getList" /\ tr.all /\ tr.accLen > 0
    THEN Done([tr EXCEPT !.getOutcome = "rejected", !.aggregated = TRUE],
              Value("array", SliceLen(tr.accLen), -1, -1, <<>>, 1,
                    TakeRuns(tr.acc, SliceLen(tr.accLen))))
  ELSE IF ~IsOk(resp.status)
    THEN [tr EXCEPT !.pc = "failed", !.getOutcome = "rejected",
                    !.error = GetError(resp.status, BodyText(resp))]
  ELSE GetReturn(tr, resp.body)

\* server.js:151-155: the response that ends get()
GetFinish(tr, resp) ==
  IF ~IsOk(resp.status)
    THEN [tr EXCEPT !.pc = "failed", !.getOutcome = "rejected",
                    !.error = GetError(resp.status, BodyText(resp))]
  ELSE GetReturn(tr, resp.body)

(***************************************************************************)
(* The environment: what the servers may answer                            *)
(***************************************************************************)
\* a token endpoint response; kind "thrown" is fetch() or res.json() rejecting
AuthOk(at, rt, e) ==
  [kind |-> "resp", status |-> 200, access_token |-> at, refresh_token |-> rt,
   expires_in |-> e, text |-> "", textFails |-> FALSE]
AuthFail(status, text, textFails) ==
  [kind |-> "resp", status |-> status, access_token |-> NULL,
   refresh_token |-> NULL, expires_in |-> ExpAbsent, text |-> text,
   textFails |-> textFails]
AuthThrown ==
  [kind |-> "thrown", status |-> 0, access_token |-> NULL,
   refresh_token |-> NULL, expires_in |-> ExpAbsent, text |-> "",
   textFails |-> FALSE]

\* a resource response
GetOk(body) == [status |-> 200, text |-> "", textFails |-> FALSE, body |-> body]
GetFail(status, text, textFails) ==
  [status |-> status, text |-> text, textFails |-> textFails, body |-> NoValue]

\* every token response: any status, any subset of the fields on a 2xx
AuthResponses ==
  {AuthOk(at, rt, e) : at \in {NULL, "A", "B"}, rt \in {NULL, "R", "S"},
                       e \in {ExpAbsent, ExpNum(0), ExpNum(-5), ExpNum(60),
                              ExpNum(600), ExpNaN, ExpInf}}
  \cup {AuthFail(s, "denied", f) : s \in {400, 401}, f \in BOOLEAN}
  \cup {AuthThrown}

\* a well-behaved token endpoint
AuthResponsesGood == {AuthOk("A", "R", ExpNum(600))}

ErrorResponses ==
  {GetFail(s, "oops", f) : s \in {401, 500}, f \in BOOLEAN}

\* the JSON values a resource may return
Values ==
  {ArrayPage(2), ObjectPage(3, -1), ObjectPage(-1, -1)}

GetResponses == {GetOk(v) : v \in Values} \cup ErrorResponses

\* the lengths of the array pages the upstream may return when asked for p
\* items: empty, exact, one long, and one that alone passes the cap
PageLengths(p) == {0, p, p + 1, MAX_ITEMS + 1}

\* the pages of those lengths as arrays; pages one item short in the other
\* recognised shapes (an items field, a data field, both, where data alone
\* would be a full page); and the unrecognised ones
ListPages(p) ==
  {ArrayPage(n) : n \in PageLengths(p)}
  \cup {ObjectPage(p - 1, -1), ObjectPage(-1, p - 1), ObjectPage(p - 1, p)}
  \cup {ObjectPage(-1, -1), Page("scalar", 0, -1, -1), Page("null", 0, -1, -1)}

\* the page size of the request a task has in flight
ReqLimit(tr) == IF tr.query.limit = Undefined THEN 1 ELSE tr.query.limit[1]

\* the page does not exceed the bound on over-long pages
WithinLongBound(tr, page) ==
  DetectItems(page) > tr.pageLimit => tr.longPages < MaxLongPages

\* the upstream of Spec holds at most MaxFullPages full pages
WithinFullBound(tr, page) ==
  (tr.all /\ DetectItems(page) >= tr.pageLimit) => tr.nPages <= MaxFullPages

(***************************************************************************)
(* Actions                                                                 *)
(***************************************************************************)
\* the clock advances
Tick(d) ==
  /\ d > now
  /\ now' = d
  /\ UNCHANGED <<client, task>>

\* server.js:294-299: a get-by-id tool is invoked and calls get(path, {})
StartGetAt(t, path) ==
  /\ task[t].pc = "idle"
  /\ task' = [task EXCEPT ![t] =
                GetEntry([IdleTask EXCEPT !.op = "get", !.path = path],
                         client, now, NoQuery)]
  /\ UNCHANGED <<client, now>>

\* the same for get_repository with the id "42"
StartGet(t) == StartGetAt(t, HandlerPath("get_repository", "42"))

\* server.js:279-281 and 159-169: a list tool is invoked and calls getList
\* with the parsed input
StartGetListAt(t, path, all, offset, limit, filter) ==
  /\ task[t].pc = "idle"
  /\ LET off == OrDefault(offset, 0)
         lim == OrDefault(limit, DefaultLimit)
         tr == [IdleTask EXCEPT !.op = "getList", !.all = all,
                                !.offset = offset, !.limit = limit,
                                !.filter = filter, !.path = path]
     IN IF ~all
          THEN task' = [task EXCEPT ![t] =
                 GetEntry(tr, client, now,
                          [offset |-> Some(off), limit |-> Some(lim),
                           filter |-> filter])]
        ELSE LET tl == [tr EXCEPT !.currentOffset = off,
                                  !.pageLimit = PageLimit(lim)]
             IN task' = [task EXCEPT ![t] =
                  GetEntry(tl, client, now,
                           [offset |-> Some(tl.currentOffset),
                            limit |-> Some(tl.pageLimit),
                            filter |-> filter])]
  /\ UNCHANGED <<client, now>>

\* the same for list_jobs
StartGetListF(t, all, offset, limit, filter) ==
  StartGetListAt(t, HandlerPath("list_jobs", ""), all, offset, limit, filter)

\* the same for an input without filter, sort and search
StartGetList(t, all, offset, limit) ==
  StartGetListF(t, all, offset, limit, Undefined)

\* server.js:279-281 / 294-299: a tool is invoked with the input a; the
\* handler parses it against the tool's schema before anything else
InvokeTool(t, tool, a) ==
  /\ task[t].pc = "idle"
  /\ IF tool = "list"
       THEN IF ListInputSchema(a)
              THEN StartGetListF(t, a.all = RawBool(TRUE),
                                 ParsedNumber(a.offset), ParsedNumber(a.limit),
                                 ParsedString(a.filter))
            ELSE /\ task' = [task EXCEPT ![t] =
                              [IdleTask EXCEPT !.pc = "failed", !.op = "getList",
                                               !.error = ValidationError]]
                 /\ UNCHANGED <<client, now>>
     ELSE IF IdSchema(a)
       THEN StartGet(t)
     ELSE /\ task' = [task EXCEPT ![t] =
                       [IdleTask EXCEPT !.pc = "failed", !.op = "get",
                                        !.error = ValidationError]]
          /\ UNCHANGED <<client, now>>

\* server.js:273-303: the tool registered under name is invoked with the
\* input a, whose id, when it is a string with something in it, is id
InvokeEndpoint(t, name, a, id) ==
  /\ task[t].pc = "idle"
  /\ IF Endpoints[name].list
       THEN IF ListInputSchema(a)
              THEN StartGetListAt(t, HandlerPath(name, id),
                                  a.all = RawBool(TRUE),
                                  ParsedNumber(a.offset), ParsedNumber(a.limit),
                                  ParsedString(a.filter))
            ELSE /\ task' = [task EXCEPT ![t] =
                              [IdleTask EXCEPT !.pc = "failed", !.op = "getList",
                                               !.error = ValidationError]]
                 /\ UNCHANGED <<client, now>>
     ELSE IF IdSchema(a)
       THEN StartGetAt(t, HandlerPath(name, IF a.id = RawEmptyStr THEN "" ELSE id))
     ELSE /\ task' = [task EXCEPT ![t] =
                       [IdleTask EXCEPT !.pc = "failed", !.op = "get",
                                        !.error = ValidationError]]
          /\ UNCHANGED <<client, now>>

\* server.js:54-58 and 96-113: the refresh sent by ensureToken is answered
RefreshRespondE(t, resp) ==
  /\ task[t].pc = "awaitRefreshE"
  /\ IF RefreshOutcome(resp) = "thrown"
       THEN /\ task' = [task EXCEPT ![t].pc = "failed",
                                    ![t].refreshE = "thrown",
                                    ![t].postAt = 0,
                                    ![t].getOutcome = "rejected",
                                    ![t].error = ThrownError]
            /\ UNCHANGED client
     ELSE IF RefreshOutcome(resp) = "fail"
       THEN /\ task' = [task EXCEPT ![t].pc = "awaitLogin",
                                    ![t].refreshE = "fail",
                                    ![t].etrace = Append(@, "login"),
                                    ![t].postAt = now,
                                    ![t].req = TokenPost]
            /\ UNCHANGED client
     ELSE /\ client' = StoreTokens(client, resp, now)
          /\ task' = [task EXCEPT ![t] =
                        SendGet1([task[t] EXCEPT !.refreshE = "ok",
                                                 !.postAt = 0], client')]
  /\ UNCHANGED now

\* server.js:78-81 mutated: a refused login does not throw, and get() goes on
\* to its resource GET
LoginRespondGoesOn(t, resp) ==
  /\ task[t].pc = "awaitLogin"
  /\ IF resp.kind = "thrown"
       THEN /\ task' = [task EXCEPT ![t].pc = "failed",
                                    ![t].postAt = 0,
                                    ![t].getOutcome = "rejected",
                                    ![t].error = ThrownError]
            /\ UNCHANGED client
     ELSE IF ~IsOk(resp.status)
       THEN /\ task' = [task EXCEPT ![t] =
                          SendGet1([task[t] EXCEPT !.postAt = 0], client)]
            /\ UNCHANGED client
     ELSE /\ client' = StoreTokens(client, resp, now)
          /\ task' = [task EXCEPT ![t] =
                        SendGet1([task[t] EXCEPT !.postAt = 0], client')]
  /\ UNCHANGED now

\* server.js:58 and 69-86: the login sent by ensureToken is answered
LoginRespond(t, resp) ==
  /\ task[t].pc = "awaitLogin"
  /\ IF resp.kind = "thrown"
       THEN /\ task' = [task EXCEPT ![t].pc = "failed",
                                    ![t].postAt = 0,
                                    ![t].getOutcome = "rejected",
                                    ![t].error = ThrownError]
            /\ UNCHANGED client
     ELSE IF ~IsOk(resp.status)
       THEN /\ task' = [task EXCEPT ![t].pc = "failed",
                                    ![t].postAt = 0,
                                    ![t].getOutcome = "rejected",
                                    ![t].error =
                                      AuthError(resp.status, BodyText(resp))]
            /\ UNCHANGED client
     ELSE /\ client' = StoreTokens(client, resp, now)
          /\ task' = [task EXCEPT ![t] =
                        SendGet1([task[t] EXCEPT !.postAt = 0], client')]
  /\ UNCHANGED now

\* server.js:129-139 and 151-155: the first resource GET is answered
GetRespond1(t, resp) ==
  /\ task[t].pc = "awaitGet1"
  /\ LET tr == [task[t] EXCEPT !.status1 = resp.status, !.last = resp,
                               !.served = @ + RunsLen(resp.body.elems)]
     IN IF ShouldRetry(resp.status)
          THEN task' = [task EXCEPT ![t] =
                          [tr EXCEPT !.pc = "awaitRefresh401",
                                     !.req = TokenPost,
                                     !.r401 = "pending",
                                     !.nRefresh401 = @ + 1,
                                     !.postRT = client.refreshToken,
                                     !.postAt = now]]
        ELSE task' = [task EXCEPT ![t] = GetFinish(tr, resp)]
  /\ UNCHANGED <<client, now>>

\* server.js:139 mutated: await this.refresh() without the .catch
Refresh401RespondNoCatch(t, resp) ==
  /\ task[t].pc = "awaitRefresh401"
  /\ LET ok == RefreshOutcome(resp) = "ok"
         c == IF ok THEN StoreTokens(client, resp, now) ELSE client
         tr == [task[t] EXCEPT
                  !.r401 = RefreshOutcome(resp),
                  !.postAt = 0,
                  !.r401Tok = IF ok THEN resp.access_token ELSE NULL]
     IN /\ client' = c
        /\ IF RefreshOutcome(resp) = "thrown"
             THEN task' = [task EXCEPT ![t] =
                             [tr EXCEPT !.pc = "failed",
                                        !.getOutcome = "rejected",
                                        !.error = ThrownError]]
           ELSE IF Truthy(c.accessToken)
             THEN task' = [task EXCEPT ![t] =
                             [tr EXCEPT !.pc = "awaitGet2", !.nGet = @ + 1,
                                        !.req = ResourceGet,
                                        !.bearer2 = c.accessToken]]
           ELSE task' = [task EXCEPT ![t] = GetFinish(tr, tr.last)]
  /\ UNCHANGED now

\* server.js:139-155: the refresh sent after the 401 is answered
Refresh401Respond(t, resp) ==
  /\ task[t].pc = "awaitRefresh401"
  /\ LET ok == RefreshOutcome(resp) = "ok"
         c == IF ok THEN StoreTokens(client, resp, now) ELSE client
         tr == [task[t] EXCEPT
                  !.r401 = RefreshOutcome(resp),
                  !.postAt = 0,
                  !.r401Tok = IF ok THEN resp.access_token ELSE NULL]
     IN /\ client' = c
        /\ IF Truthy(c.accessToken)
             THEN task' = [task EXCEPT ![t] =
                             [tr EXCEPT !.pc = "awaitGet2", !.nGet = @ + 1,
                                        !.req = ResourceGet,
                                        !.bearer2 = c.accessToken]]
           ELSE task' = [task EXCEPT ![t] = GetFinish(tr, tr.last)]
  /\ UNCHANGED now

\* server.js:141-155: the retried resource GET is answered
GetRespond2(t, resp) ==
  /\ task[t].pc = "awaitGet2"
  /\ task' = [task EXCEPT ![t] =
                GetFinish([task[t] EXCEPT !.last = resp,
                                          !.served = @ + RunsLen(resp.body.elems)],
                          resp)]
  /\ UNCHANGED <<client, now>>

\* server.js:183 and 168-169: the pause is over, the next page is asked for
DelayDone(t) ==
  /\ task[t].pc = "delay"
  /\ task' = [task EXCEPT ![t] =
                GetEntry(task[t], client, now,
                         [offset |-> Some(task[t].currentOffset),
                          limit |-> Some(task[t].pageLimit),
                          filter |-> task[t].filter])]
  /\ UNCHANGED <<client, now>>

\* server.js:282-283 / 300-301 mutated: a handler whose call failed clears
\* the access token before it hands the error back
ReturnInvalidates(t) ==
  /\ task[t].pc \in {"done", "failed"}
  /\ task' = [task EXCEPT ![t] = IdleTask]
  /\ client' = IF task[t].pc = "failed"
                 THEN [client EXCEPT !.accessToken = NULL]
               ELSE client
  /\ UNCHANGED now

\* server.js:282-283 / 300-301: the invocation's result or error is handed back
Return(t) ==
  /\ task[t].pc \in {"done", "failed"}
  /\ task' = [task EXCEPT ![t] = IdleTask]
  /\ UNCHANGED <<client, now>>

(***************************************************************************)
(* Specifications                                                          *)
(***************************************************************************)
\* Spec: one invocation at a time against servers that may answer anything;
\* aggregation over pages of the default size.
Next ==
  \/ \E d \in Times : Tick(d)
  \/ StartGet(1)
  \/ \E all \in BOOLEAN, offset \in {Undefined}, limit \in {Some(2)} :
       StartGetList(1, all, offset, limit)
  \/ \E resp \in AuthResponses : RefreshRespondE(1, resp)
  \/ \E resp \in AuthResponses : LoginRespond(1, resp)
  \/ \E resp \in GetResponses :
       WithinFullBound(task[1], resp.body) /\ GetRespond1(1, resp)
  \/ \E resp \in AuthResponses : Refresh401Respond(1, resp)
  \/ \E resp \in GetResponses :
       WithinFullBound(task[1], resp.body) /\ GetRespond2(1, resp)
  \/ DelayDone(1)
  \/ Return(1)

Spec == Init /\ [][Next]_vars

\* SpecAuth: Spec without the list tools: one by-id invocation at a time
\* against servers that may answer anything.
NextAuth ==
  \/ \E d \in Times : Tick(d)
  \/ StartGet(1)
  \/ \E resp \in AuthResponses : RefreshRespondE(1, resp)
  \/ \E resp \in AuthResponses : LoginRespond(1, resp)
  \/ \E resp \in GetResponses : GetRespond1(1, resp)
  \/ \E resp \in AuthResponses : Refresh401Respond(1, resp)
  \/ \E resp \in GetResponses : GetRespond2(1, resp)
  \/ Return(1)

SpecAuth == Init /\ [][NextAuth]_vars

\* the access tokens the token endpoint of SpecConc issues
IssuedTokens == {"A", "B"}

\* a token endpoint that answers every login and every refresh alike: 200,
\* an issued access token, the refresh token, 600 s
ConcAuthResponses == {AuthOk(a, "R", ExpNum(600)) : a \in IssuedTokens}

ConcOk == GetOk(ArrayPage(2))
ConcRefused == GetFail(401, "oops", FALSE)

\* SpecConc: every task invokes by-id tools on the one client, in any
\* interleaving of their awaits.  The token endpoint is the one above; the
\* resource accepts every issued token, after refusing at most the first GET
\* of a get() with 401.
\* the instants of SpecConc: the token of a login at the first is stale at
\* the second
ConcTimes == {0, 575000}

NextConc ==
  \/ \E d \in ConcTimes : Tick(d)
  \/ \E t \in Tasks : StartGet(t)
  \/ \E t \in Tasks, resp \in ConcAuthResponses : RefreshRespondE(t, resp)
  \/ \E t \in Tasks, resp \in ConcAuthResponses : LoginRespond(t, resp)
  \/ \E t \in Tasks : GetRespond1(t, ConcOk)
  \/ \E t \in Tasks : GetRespond1(t, ConcRefused)
  \/ \E t \in Tasks, resp \in ConcAuthResponses : Refresh401Respond(t, resp)
  \/ \E t \in Tasks : GetRespond2(t, ConcOk)
  \/ \E t \in Tasks : Return(t)

SpecConc == Init /\ [][NextConc]_vars

\* the token endpoint of SpecRace: each access token it issues has its own
\* lifetime, so that TokenState shows which response each of the two fields
\* was taken from
RaceGranted == {AuthOk("A", "R", ExpNum(600)), AuthOk("B", "R", ExpNum(900))}

\* SpecRace: every task invokes by-id tools on the one client, in any
\* interleaving of their awaits, against the token endpoint above; the
\* resource may refuse the first GET of a get() with 401.
NextRace ==
  \/ \E d \in ConcTimes : Tick(d)
  \/ \E t \in Tasks : StartGet(t)
  \/ \E t \in Tasks, resp \in RaceGranted : RefreshRespondE(t, resp)
  \/ \E t \in Tasks, resp \in RaceGranted : LoginRespond(t, resp)
  \/ \E t \in Tasks : GetRespond1(t, ConcOk)
  \/ \E t \in Tasks : GetRespond1(t, ConcRefused)
  \/ \E t \in Tasks, resp \in RaceGranted : Refresh401Respond(t, resp)
  \/ \E t \in Tasks : GetRespond2(t, ConcOk)
  \/ \E t \in Tasks : Return(t)

SpecRace == Init /\ [][NextRace]_vars

ListFailure == GetFail(500, "oops", FALSE)

\* SpecList: one list invocation at a time, for every page size, against a
\* token endpoint that answers well and an upstream that returns pages of any
\* length and shape, or an error.
NextList ==
  \/ \E all \in BOOLEAN, offset \in {Undefined, Some(7)},
        limit \in {Undefined} \cup {Some(n) : n \in 1..DefaultLimit} :
       StartGetList(1, all, offset, limit)
  \/ \E resp \in AuthResponsesGood : LoginRespond(1, resp)
  \/ \E page \in ListPages(ReqLimit(task[1])) :
       WithinLongBound(task[1], page) /\ GetRespond1(1, GetOk(page))
  \/ GetRespond1(1, ListFailure)
  \/ DelayDone(1)
  \/ Return(1)

SpecList == Init /\ [][NextList]_vars

\* the array of n items an upstream returns for a page request: every item
\* carries the offset that the request asked for
UpstreamPage(query, n) ==
  Value("array", n, -1, -1, <<>>, 1, Run(query.offset[1], n))

\* the lengths of the pages of SpecPages: empty, short, full and one long
UpstreamLengths(p) == {0, 40, p - 1, p, p + 1}

\* SpecPages: one aggregation at a time over an upstream whose items tell the
\* page they came from; page sizes 40 and 100.
NextPages ==
  \/ \E offset \in {Undefined, Some(7)},
        limit \in {Undefined, Some(40), Some(DefaultLimit)} :
       StartGetList(1, TRUE, offset, limit)
  \/ \E resp \in AuthResponsesGood : LoginRespond(1, resp)
  \/ \E n \in UpstreamLengths(ReqLimit(task[1])) :
       /\ WithinLongBound(task[1], ArrayPage(n))
       /\ GetRespond1(1, GetOk(UpstreamPage(task[1].query, n)))
  \/ DelayDone(1)
  \/ Return(1)

SpecPages == Init /\ [][NextPages]_vars

\* three well-formed inputs: {} and one with every field, for a list tool;
\* {id} for a by-id tool
EmptyArgs ==
  [offset |-> RawAbsent, limit |-> RawAbsent, filter |-> RawAbsent,
   all |-> RawAbsent, id |-> RawAbsent, extra |-> FALSE]
FullArgs ==
  [offset |-> RawInt(7), limit |-> RawInt(DefaultLimit), filter |-> RawStr,
   all |-> RawBool(TRUE), id |-> RawAbsent, extra |-> FALSE]
IdArgs == [EmptyArgs EXCEPT !.id = RawStr]

\* the inputs a caller may hand to a tool: each of the three with one field
\* changed, to good and to bad values
RawArgs ==
  UNION {
    {[b EXCEPT !.offset = x] :
       x \in {RawAbsent, RawInt(-1), RawInt(0), RawInt(7), RawFrac, RawStr, RawNull}}
    \cup {[b EXCEPT !.limit = x] :
       x \in {RawAbsent, RawInt(0), RawInt(1), RawInt(DefaultLimit),
              RawInt(DefaultLimit + 1), RawFrac, RawStr}}
    \cup {[b EXCEPT !.filter = x] :
       x \in {RawAbsent, RawStr, RawEmptyStr, RawInt(1)}}
    \cup {[b EXCEPT !.all = x] :
       x \in {RawAbsent, RawBool(FALSE), RawBool(TRUE), RawStr, RawNull}}
    \cup {[b EXCEPT !.id = x] : x \in {RawAbsent, RawStr, RawInt(5)}}
    \cup {[b EXCEPT !.extra = x] : x \in BOOLEAN}
    : b \in {EmptyArgs, FullArgs, IdArgs}}

ToolResponses ==
  {GetOk(ArrayPage(0)), GetOk(ArrayPage(1)), GetOk(ArrayPage(DefaultLimit)),
   GetOk(ObjectPage(-1, -1)), GetFail(500, "oops", FALSE)}

\* SpecTools: one tool invocation at a time with any input, valid or not.
NextTools ==
  \/ \E tool \in {"list", "get"}, a \in RawArgs : InvokeTool(1, tool, a)
  \/ \E resp \in AuthResponsesGood : LoginRespond(1, resp)
  \/ \E resp \in ToolResponses : GetRespond1(1, resp)
  \/ DelayDone(1)
  \/ Return(1)

SpecTools == Init /\ [][NextTools]_vars

\* the inputs of SpecEndpoints: nothing, every list field, an id, an empty
\* id, and list fields with an id
EndpointArgs ==
  {EmptyArgs, FullArgs, IdArgs, [EmptyArgs EXCEPT !.id = RawEmptyStr],
   [FullArgs EXCEPT !.id = RawStr]}

EndpointResponses ==
  {GetOk(ArrayPage(0)), GetOk(ArrayPage(1)), GetOk(ArrayPage(DefaultLimit)),
   GetFail(401, "oops", FALSE)}

\* SpecEndpoints: one invocation at a time of any registered tool.
NextEndpoints ==
  \/ \E name \in ToolNames, a \in EndpointArgs, id \in IdTexts \ {""} :
       InvokeEndpoint(1, name, a, id)
  \/ \E resp \in AuthResponsesGood : LoginRespond(1, resp)
  \/ \E resp \in EndpointResponses : GetRespond1(1, resp)
  \/ \E resp \in AuthResponsesGood : Refresh401Respond(1, resp)
  \/ \E resp \in EndpointResponses : GetRespond2(1, resp)
  \/ DelayDone(1)
  \/ Return(1)

SpecEndpoints == Init /\ [][NextEndpoints]_vars

\* n elements, the first half of value 1 and the rest of value 2
TwoRuns(n) == Concat(Run(1, n \div 2), Run(2, n - n \div 2))

\* the element widths of SpecGuard: an array of 2000 elements is within the
\* ceiling for 1 and 498, over it from 499 on; one of 999 elements is over it
\* from 1001 on; an object of 49 keys is over it when each entry has 25000
\* characters
Widths == {1, 498, 499, 1000, 1001, 2000, 25000}

\* the values a resource returns in SpecGuard: arrays, objects with an items
\* array, a data array, both or neither, and strings, on both sides of the
\* ceiling of the serialized length and of the caps on elements and keys
Payloads ==
  {Value("array", n, -1, -1, <<>>, w, TwoRuns(n)) :
     n \in {0, 999, 1000, 1001, 2000}, w \in Widths}
  \cup {Value("object", 0, i, d, TwoRuns(k), w, TwoRuns(IF i >= 0 THEN i ELSE IF d >= 0 THEN d ELSE 0)) :
          i \in {-1, 5, 2000}, d \in {-1, 1500}, k \in {0, 3, 49, 50, 51, 2000},
          w \in Widths}
  \cup {Value("string", n, -1, -1, <<>>, 1, TwoRuns(n)) :
          n \in {0, 999997, 999998, 999999, 1000000, 1500000}}
  \cup {Page("scalar", 0, -1, -1), Page("null", 0, -1, -1)}

GuardResponses == {GetOk(v) : v \in Payloads}

\* SpecGuard: one invocation at a time, of a by-id tool or of a list tool
\* without aggregation, whose resource answers with any of Payloads.
NextGuard ==
  \/ StartGet(1)
  \/ \E limit \in {Undefined, Some(5)} : StartGetList(1, FALSE, Undefined, limit)
  \/ \E resp \in AuthResponsesGood : LoginRespond(1, resp)
  \/ \E resp \in GuardResponses : GetRespond1(1, resp)
  \/ Return(1)

SpecGuard == Init /\ [][NextGuard]_vars

\* the token endpoint of SpecFail: it answers well, refuses, or cannot be
\* reached
FailAuthResponses ==
  {AuthOk("A", "R", ExpNum(600)), AuthFail(401, "denied", FALSE), AuthThrown}

\* the failures of a resource GET in SpecFail
FailResponses == {GetFail(401, "oops", FALSE), GetFail(500, "oops", FALSE)}

\* SpecFail: one invocation at a time, of a by-id tool or of a list tool with
\* page size 40 or 100, aggregating or not, over an upstream that serves full
\* pages and a last short one, while the clock advances; any token POST and
\* any resource GET may fail.
NextFail ==
  \/ \E d \in ConcTimes : Tick(d)
  \/ StartGet(1)
  \/ \E all \in BOOLEAN, limit \in {Undefined, Some(40)} :
       StartGetList(1, all, Undefined, limit)
  \/ \E resp \in FailAuthResponses : RefreshRespondE(1, resp)
  \/ \E resp \in FailAuthResponses : LoginRespond(1, resp)
  \/ \E n \in {ReqLimit(task[1]) - 1, ReqLimit(task[1])} :
       GetRespond1(1, GetOk(ArrayPage(n)))
  \/ \E resp \in FailResponses : GetRespond1(1, resp)
  \/ \E resp \in FailAuthResponses : Refresh401Respond(1, resp)
  \/ \E n \in {ReqLimit(task[1]) - 1, ReqLimit(task[1])} :
       GetRespond2(1, GetOk(ArrayPage(n)))
  \/ \E resp \in FailResponses : GetRespond2(1, resp)
  \/ DelayDone(1)
  \/ Return(1)

SpecFail == Init /\ [][NextFail]_vars

\* the limits getList is called with in SpecLimit: negative, zero, in range,
\* over the range
DirectLimits == {-5, 0, 1, 40, DefaultLimit, DefaultLimit + 1, 250}

\* SpecLimit: getList called for an aggregation with any integer limit, or
\* none, over an upstream that serves full pages and a last short one.
NextLimit ==
  \/ \E limit \in {Undefined} \cup {Some(n) : n \in DirectLimits} :
       StartGetList(1, TRUE, Undefined, limit)
  \/ \E resp \in AuthResponsesGood : LoginRespond(1, resp)
  \/ \E n \in {ReqLimit(task[1]) - 1, ReqLimit(task[1])} :
       GetRespond1(1, GetOk(ArrayPage(n)))
  \/ DelayDone(1)
  \/ Return(1)

SpecLimit == Init /\ [][NextLimit]_vars

(***************************************************************************)
(* The VeeamClient of the hybrid and compat builds (src/unnamed/part_002   *)
(* 55-102, part_003 48-95, the same text), as what each of its handlers    *)
(* does on an answer from a state of the server.js client                  *)
(***************************************************************************)
\* part_002:71-72 / 84-85  Date.now() + Number(d.expires_in || 600) * 1000,
\* as a number, NaN or Infinity
HybridExpiresAt(e, t) ==
  LET x == IF e.k = "absent" \/ e = ExpNum(0) THEN ExpNum(600) ELSE e
  IN IF x.k = "num" THEN ExpNum(t + x.v * 1000) ELSE x

\* part_002:61-87: login and refresh leave baseUrl, username, password alone
CredentialFieldsKept ==
  /\ client'.baseUrl = client.baseUrl
  /\ client'.username = client.username
  /\ client'.password = client.password

\* part_002:69-72 / 82-85: the state update of a successful login / refresh
HybridStoreTokens(resp) ==
  /\ client'.accessToken = resp.access_token
  /\ client'.refreshToken = IF Truthy(resp.refresh_token) THEN resp.refresh_token
                            ELSE client.refreshToken
  /\ ExpNum(client'.expiresAt) = HybridExpiresAt(resp.expires_in, now)
  /\ CredentialFieldsKept

\* part_002:59 and 61-73: the login sent by ensureToken is answered
HybridLoginRespond(t, resp) ==
  /\ task[t].pc = "awaitLogin"
  /\ IF resp.kind = "thrown"
       THEN /\ task' = [task EXCEPT ![t].pc = "failed",
                                    ![t].postAt = 0,
                                    ![t].getOutcome = "rejected",
                                    ![t].error = ThrownError]
            /\ UNCHANGED client
     ELSE IF ~IsOk(resp.status)
       THEN /\ task' = [task EXCEPT ![t].pc = "failed",
                                    ![t].postAt = 0,
                                    ![t].getOutcome = "rejected",
                                    ![t].error =
                                      AuthError(resp.status, BodyText(resp))]
            /\ UNCHANGED client
     ELSE /\ HybridStoreTokens(resp)
          /\ task' = [task EXCEPT ![t] =
                        SendGet1([task[t] EXCEPT !.postAt = 0], client')]
  /\ UNCHANGED now

\* part_002:58-59 and 74-87: the refresh sent by ensureToken is answered
HybridRefreshRespondE(t, resp) ==
  /\ task[t].pc = "awaitRefreshE"
  /\ IF resp.kind = "thrown"
       THEN /\ task' = [task EXCEPT ![t].pc = "failed",
                                    ![t].refreshE = "thrown",
                                    ![t].postAt = 0,
                                    ![t].getOutcome = "rejected",
                                    ![t].error = ThrownError]
            /\ UNCHANGED client
     ELSE IF ~IsOk(resp.status)
       THEN /\ task' = [task EXCEPT ![t].pc = "awaitLogin",
                                    ![t].refreshE = "fail",
                                    ![t].etrace = Append(@, "login"),
                                    ![t].postAt = now,
                                    ![t].req = TokenPost]
            /\ UNCHANGED client
     ELSE /\ HybridStoreTokens(resp)
          /\ task' = [task EXCEPT ![t] =
                        SendGet1([task[t] EXCEPT !.refreshE = "ok",
                                                 !.postAt = 0], client')]
  /\ UNCHANGED now

\* part_002:97-101: the refresh sent after the 401 is answered.  A refresh
\* that raises rejects get(); one that returns false leaves the 401 response
\* to line 100; one that returns true is followed by the second GET.
HybridRefresh401Respond(t, resp) ==
  /\ task[t].pc = "awaitRefresh401"
  /\ LET o == IF resp.kind = "thrown" THEN "thrown"
              ELSE IF ~IsOk(resp.status) THEN "fail"
              ELSE "ok"
         tr == [task[t] EXCEPT
                  !.r401 = o,
                  !.postAt = 0,
                  !.r401Tok = IF o = "ok" THEN resp.access_token ELSE NULL]
     IN IF o = "thrown"
          THEN /\ UNCHANGED client
               /\ task' = [task EXCEPT ![t] =
                             [tr EXCEPT !.pc = "failed",
                                        !.getOutcome = "rejected",
                                        !.error = ThrownError]]
        ELSE IF o = "fail"
          THEN /\ UNCHANGED client
               /\ task' = [task EXCEPT ![t] = GetFinish(tr, tr.last)]
        ELSE /\ HybridStoreTokens(resp)
             /\ task' = [task EXCEPT ![t] =
                           [tr EXCEPT !.pc = "awaitGet2", !.nGet = @ + 1,
                                      !.req = ResourceGet,
                                      !.bearer2 = resp.access_token]]
  /\ UNCHANGED now

(***************************************************************************)
(* Properties                                                              *)
(***************************************************************************)
\* task t enters get() (and with it ensureToken) in this step
EntersGet(t) ==
  task[t].pc \in {"idle", "delay"} /\ task'[t].pc \notin {"idle", "delay"}

\* get() of task t has ended, after at least one resource response
GetEnded(t) ==
  task[t].pc \in {"done", "failed", "delay"} /\ task[t].last # NoResp

CeilDiv(a, b) == (a + b - 1) \div b

\* C1: whenever ensureToken() returns without raising (the first resource GET
\* is then sent at once, carrying the access token of that moment), the access
\* token in TokenState is usable: present and non-empty.
C1_EnsureTokenLeavesUsableToken ==
  \A t \in Tasks : task[t].pc = "awaitGet1" => Truthy(task[t].bearer1)

\* C2: when an access token is present and the time is strictly less than
\* expiresAt minus 30 seconds, ensureToken() sends no token POST (the resource
\* GET is sent at once) and leaves TokenState unchanged.
C2_FreshTokenNoNetworkCall ==
  [][\A t \in Tasks :
       (/\ EntersGet(t)
        /\ Truthy(client.accessToken)
        /\ now < client.expiresAt - SafetyMarginMs)
       => (/\ client' = client
           /\ task'[t].pc = "awaitGet1"
           /\ task'[t].etrace = <<>>)]_vars

\* C2 witness: after a login with a 600 s lifetime at t = 0, a call made at
\* t = 550 s has sent its resource GET without any token POST.
C2_Witness ==
  /\ now = 550000
  /\ client.expiresAt = 600000
  /\ Truthy(client.accessToken)
  /\ task[1].pc = "awaitGet1"
  /\ task[1].etrace = <<>>

\* C3: when the token is absent or the time is at or past expiresAt minus 30
\* seconds, ensureToken() first sends a refresh POST if and only if a refresh
\* token is held (otherwise a login POST); a login POST is sent only then or
\* after that refresh returned failure, never after a successful refresh.
C3_RefreshThenLogin ==
  [][\A t \in Tasks :
       /\ (/\ EntersGet(t)
           /\ ~(Truthy(client.accessToken)
                /\ now < client.expiresAt - SafetyMarginMs))
          => IF Truthy(client.refreshToken)
               THEN /\ task'[t].pc = "awaitRefreshE"
                    /\ task'[t].etrace = <<"refresh">>
             ELSE /\ task'[t].pc = "awaitLogin"
                  /\ task'[t].etrace = <<"login">>
       /\ (task'[t].pc = "awaitLogin" /\ task[t].pc # "awaitLogin")
          => \/ EntersGet(t) /\ ~Truthy(client.refreshToken)
             \/ task[t].pc = "awaitRefreshE" /\ task'[t].refreshE = "fail"
       /\ (task[t].pc = "awaitRefreshE" /\ task'[t].refreshE = "ok")
          => task'[t].pc = "awaitGet1" /\ task'[t].etrace = <<"refresh">>]_vars

\* C3 witness: token "A" obtained at t = 0 with a 600 s lifetime and a refresh
\* token; the call at t = 575 s has sent a refresh POST.
C3_Witness ==
  /\ now = 575000
  /\ client.expiresAt = 600000
  /\ Truthy(client.accessToken)
  /\ task[1].pc = "awaitRefreshE"
  /\ task[1].etrace = <<"refresh">>

\* C4: a refresh-grant POST in flight, from ensureToken or from the 401 path
\* of get(), always carries a refresh token that was held when it was sent.
C4_NoRefreshWithoutRefreshToken ==
  \A t \in Tasks :
    task[t].pc \in {"awaitRefreshE", "awaitRefresh401"} => Truthy(task[t].postRT)

\* C5: a get() sends at most two resource GETs; the second only when the first
\* was answered 401 and exactly one refresh was attempted in between; no other
\* status, and no 401 on the retried GET, leads to a further refresh or GET.
C5_AtMostOneRetry ==
  \A t \in Tasks :
    /\ task[t].nGet <= 2
    /\ task[t].nRefresh401 <= 1
    /\ task[t].nGet = 2 => task[t].status1 = 401 /\ task[t].nRefresh401 = 1
    /\ task[t].nRefresh401 = 1 => task[t].status1 = 401
    /\ (GetEnded(t) /\ task[t].status1 # 401) => task[t].nGet = 1

\* C5 witness: a get() whose retried GET was answered 401 too has failed after
\* two GETs and one refresh.
C5_Witness ==
  /\ task[1].pc = "failed"
  /\ task[1].nGet = 2
  /\ task[1].nRefresh401 = 1
  /\ task[1].last.status = 401

\* C6: a retried GET carries the access token that the refresh made after the
\* 401 returned; no retry is sent when that refresh yielded no token.
C6_RetryCarriesRefreshedToken ==
  \A t \in Tasks :
    task[t].nGet = 2 =>
      /\ task[t].r401 = "ok"
      /\ Truthy(task[t].r401Tok)
      /\ task[t].bearer2 = task[t].r401Tok

C8_SinglePageWhenNotAll ==
  \A t \in Tasks :
    (task[t].op = "getList" /\ ~task[t].all) =>
      /\ task[t].nPages = 1
      /\ task[t].pc # "delay"
      /\ ~task[t].aggregated
      /\ task[t].pc = "done" => task[t].result = task[t].last.body

\* C8 witness: a page of more than 1000 items came back and was returned whole.
C8_Witness ==
  /\ task[1].op = "getList"
  /\ ~task[1].all
  /\ task[1].pc = "done"
  /\ task[1].result = ArrayPage(MAX_ITEMS + 1)

\* C9: for every page size the aggregation makes at most
\* ceil(1000 / pageSize) + 1 page requests.
C9_LoopBound ==
  \A t \in Tasks :
    (task[t].op = "getList" /\ task[t].all) =>
      task[t].nPages <= CeilDiv(MAX_ITEMS, task[t].pageLimit) + 1

\* C9 witness: with page size 1 an aggregation has ended after 1000 requests.
C9_Witness ==
  /\ task[1].op = "getList"
  /\ task[1].all
  /\ task[1].pc = "done"
  /\ task[1].pageLimit = 1
  /\ task[1].nPages = MAX_ITEMS

\* C10: an aggregated result has at most 1000 items, and the accumulator never
\* shrinks from one page to the next.
C10_ResultCapped ==
  \A t \in Tasks :
    /\ task[t].accPrev <= task[t].accLen
    /\ (task[t].pc = "done" /\ task[t].aggregated) =>
         /\ task[t].result.kind = "array"
         /\ task[t].result.n <= MAX_ITEMS
         /\ task[t].result.n <= task[t].accLen

\* C10 witness: an over-long page pushed the accumulator past 1000 and the
\* result holds exactly 1000 items.
C10_Witness ==
  /\ task[1].pc = "done"
  /\ task[1].aggregated
  /\ task[1].longPages > 0
  /\ task[1].accPrev > 0
  /\ task[1].accLen > MAX_ITEMS
  /\ task[1].result = ArrayPage(MAX_ITEMS)

\* the items of k full pages of size p and one page of m < p items, fetched
\* from offset o on, in fetch order
RECURSIVE FetchOrder(_, _, _, _)
FetchOrder(o, p, k, m) ==
  IF k = 0 THEN Run(o, m)
  ELSE <<<<o, p>>>> \o FetchOrder(o + p, p, k - 1, m)

\* C11: when the upstream answered an aggregation of page size p with k pages
\* of exactly p items and then one of fewer than p (fewer than 1000 in all),
\* the aggregation made exactly k + 1 page requests and returns every item
\* served, once each, in the order fetched.
C11_ConcatenationInFetchOrder ==
  \A t \in Tasks :
    (/\ task[t].pc = "done"
     /\ task[t].aggregated
     /\ task[t].longPages = 0
     /\ task[t].served < MAX_ITEMS)
    => LET p == task[t].pageLimit
           k == task[t].served \div p
           m == task[t].served % p
       IN /\ task[t].nPages = k + 1
          /\ task[t].result.kind = "array"
          /\ task[t].result.n = task[t].served
          /\ task[t].result.elems =
               FetchOrder(OrDefault(task[t].offset, 0), p, k, m)

\* C11 witness: pages of 100, 100 and 40 items gave 240 items after three
\* requests.
C11_Witness ==
  /\ task[1].pc = "done"
  /\ task[1].aggregated
  /\ task[1].limit = Undefined
  /\ task[1].offset = Undefined
  /\ task[1].nPages = 3
  /\ task[1].result.n = 240
  /\ task[1].result.elems = <<<<0, 100>>, <<100, 100>>, <<200, 40>>>>

\* C12: within one aggregation a page request is sent only when the one
\* before it has been answered, the first at the caller's offset (0 by
\* default) and each later one exactly one page size further.
C12_SerialIncreasingOffsets ==
  [][\A t \in Tasks :
       (EntersGet(t) /\ task'[t].op = "getList" /\ task'[t].all)
       => /\ task'[t].query.limit = Some(task'[t].pageLimit)
          /\ IF task[t].pc = "idle"
               THEN /\ task'[t].nPages = 1
                    /\ task'[t].query.offset =
                         Some(OrDefault(task'[t].offset, 0))
             ELSE /\ task[t].getOutcome = "resolved"
                  /\ task[t].last # NoResp
                  /\ task'[t].nPages = task[t].nPages + 1
                  /\ task'[t].query.offset =
                       Some(task[t].query.offset[1] + task[t].pageLimit)
                  /\ task'[t].query.offset[1] > task[t].query.offset[1]]_vars

\* C12 witness: the third page of an aggregation from offset 7 with page size
\* 100 is being asked for at offset 207.
C12_Witness ==
  /\ task[1].pc = "awaitGet1"
  /\ task[1].all
  /\ task[1].offset = Some(7)
  /\ task[1].pageLimit = DefaultLimit
  /\ task[1].nPages = 3
  /\ task[1].query.offset = Some(207)

\* a JSON value that is no array and has neither an items nor a data array
Unrecognised(v) ==
  /\ v.kind \in {"object", "string", "scalar", "null"}
  /\ ~(v.kind = "object" /\ (v.items >= 0 \/ v.data >= 0))

\* C13: when a page of an aggregation is no array and has neither an items
\* nor a data array (an object without them, a scalar, null), getList ends
\* there and returns that page as it is, nothing of the accumulation, and
\* asks for no further page.
C13_UnrecognisedPageReturned ==
  \A t \in Tasks :
    (/\ task[t].op = "getList"
     /\ task[t].all
     /\ GetEnded(t)
     /\ IsOk(task[t].last.status)
     /\ Unrecognised(task[t].last.body))
    => /\ task[t].pc = "done"
       /\ task[t].result = task[t].last.body
       /\ ~task[t].aggregated

\* C14: a payload whose serialized length is at most 1,000,000 comes back
\* from truncatePayload as it is and with no note; an array of 2000 elements
\* whose serialized length is more comes back as its first 1000 elements, with
\* a note.
C14_GuardrailCeiling ==
  \A t \in Tasks :
    task[t].pc = "done" =>
      /\ StringifyLen(task[t].result) <= MAX_BYTES
         => /\ task[t].trunc.payload = task[t].result
            /\ task[t].trunc.note = NULL
      /\ (/\ task[t].result.kind = "array"
          /\ task[t].result.n = 2000
          /\ StringifyLen(task[t].result) > MAX_BYTES)
         => /\ task[t].trunc.payload.kind = "array"
            /\ task[t].trunc.payload.n = 1000
            /\ task[t].trunc.payload.elems = <<<<1, 1000>>>>
            /\ task[t].trunc.note # NULL

\* C14 witness: an array of 2000 elements of 499 characters each has been cut
\* to its first 1000.
C14_Witness ==
  /\ task[1].pc = "done"
  /\ task[1].result.kind = "array"
  /\ task[1].result.n = 2000
  /\ task[1].result.w = 499
  /\ task[1].trunc.payload.n = 1000
  /\ task[1].trunc.truncated

\* C15: over the ceiling, an array keeps its first min(n, 1000) elements; an
\* object with an items array has only items cut to its first 1000 elements,
\* else one with a data array only data; any other object keeps its first 50
\* keys; a string keeps its first 1,000,000 characters; all else is untouched.
C15_ShrinkByShape ==
  \A t \in Tasks :
    (task[t].pc = "done" /\ StringifyLen(task[t].result) > MAX_BYTES) =>
      LET r == task[t].result
          o == task[t].trunc.payload
      IN /\ o.kind = r.kind /\ o.w = r.w
         /\ r.kind = "array"
            => /\ o.n = Min(r.n, 1000)
               /\ o.elems = TakeRuns(r.elems, 1000)
         /\ (r.kind = "object" /\ r.items >= 0)
            => /\ o.items = Min(r.items, 1000)
               /\ o.elems = TakeRuns(r.elems, 1000)
               /\ o.data = r.data /\ o.keys = r.keys
         /\ (r.kind = "object" /\ r.items < 0 /\ r.data >= 0)
            => /\ o.data = Min(r.data, 1000)
               /\ o.elems = TakeRuns(r.elems, 1000)
               /\ o.items = r.items /\ o.keys = r.keys
         /\ (r.kind = "object" /\ r.items < 0 /\ r.data < 0)
            => /\ o.keys = TakeRuns(r.keys, 50)
               /\ RunsLen(o.keys) = Min(RunsLen(r.keys), 50)
         /\ r.kind = "string"
            => /\ o.n = Min(r.n, 1000000)
               /\ o.elems = TakeRuns(r.elems, 1000000)

\* C15 witness: an object with 2000 items and 1500 data elements over the
\* ceiling came back with 1000 items and its 1500 data elements.
C15_Witness ==
  /\ task[1].pc = "done"
  /\ task[1].result.kind = "object"
  /\ task[1].result.items = 2000
  /\ task[1].result.data = 1500
  /\ task[1].trunc.truncated
  /\ task[1].trunc.payload.items = 1000
  /\ task[1].trunc.payload.data = 1500

\* the input breaks its tool's schema in one of the ways the claim lists
Malformed(tool, a) ==
  \/ a.extra
  \/ tool = "list" /\ a.id.k # "absent"
  \/ tool = "list" /\ a.limit.k = "int" /\ (a.limit.v < 1 \/ a.limit.v > 100)
  \/ tool = "list" /\ a.limit.k \notin {"absent", "int"}
  \/ tool = "list" /\ a.offset.k = "int" /\ a.offset.v < 0
  \/ tool = "list" /\ a.offset.k \notin {"absent", "int"}
  \/ tool = "list" /\ a.filter.k \notin {"absent", "str"}
  \/ tool = "list" /\ a.all.k \notin {"absent", "bool"}
  \/ tool = "get" /\ a.id.k # "str"
  \/ tool = "get" /\ \E f \in {"offset", "limit", "filter", "all"} : a[f].k # "absent"

\* C16: an invocation whose input breaks its schema (an unknown field, limit
\* outside 1..100 or no integer, a negative offset, a field of the wrong type,
\* no id for a by-id tool) fails without any token POST or resource GET and
\* leaves TokenState as it was.
C16_InvalidInputNoNetwork ==
  [][\A t \in Tasks :
       (task[t].pc = "idle" /\ task'[t].pc # "idle")
       => \A tool \in {"list", "get"}, a \in RawArgs :
            (Malformed(tool, a) /\ InvokeTool(t, tool, a))
            => /\ task'[t].pc = "failed"
               /\ task'[t].error = ValidationError
               /\ task'[t].req = NoReq
               /\ task'[t].nGet = 0
               /\ task'[t].etrace = <<>>
               /\ client' = client]_vars

\* C16 witness: with a token held, an invocation has failed validation and
\* has sent nothing.
C16_Witness ==
  /\ Truthy(client.accessToken)
  /\ task[1].pc = "failed"
  /\ task[1].op = "getList"
  /\ task[1].error = ValidationError
  /\ task[1].req = NoReq

\* C18: every request a task sends is a GET of a resource or a POST to the
\* token endpoint; a task that waits for an answer has sent the request of
\* that kind.
C18_OnlyGetAndTokenPost ==
  \A t \in Tasks :
    /\ task[t].req \in {NoReq,
                        [method |-> "GET", url |-> "resource"],
                        [method |-> "POST", url |-> "token"]}
    /\ task[t].pc \in {"awaitGet1", "awaitGet2"} => task[t].req.method = "GET"
    /\ task[t].pc \in {"awaitLogin", "awaitRefreshE", "awaitRefresh401"}
       => task[t].req = [method |-> "POST", url |-> "token"]

\* C18 witness: a get() answered 401 has a refresh POST in flight, after its
\* resource GET.
C18_Witness ==
  /\ task[1].pc = "awaitRefresh401"
  /\ task[1].nGet = 1
  /\ task[1].req = [method |-> "POST", url |-> "token"]

\* C19: when the login POST is answered with a status outside 200..299,
\* login() fails with an error that carries that status and the text of the
\* body (the empty text when the body cannot be read), and TokenState is what
\* it was.
C19_LoginFailureLeavesTokenState ==
  [][\A t \in Tasks :
       (task[t].pc = "awaitLogin" /\ task'[t].pc # "awaitLogin")
       => \A resp \in AuthResponses :
            (/\ LoginRespond(t, resp)
             /\ resp.kind = "resp"
             /\ (resp.status < 200 \/ resp.status > 299))
            => /\ task'[t].pc = "failed"
               /\ task'[t].error =
                    [kind |-> "auth", status |-> resp.status,
                     text |-> IF resp.textFails THEN "" ELSE resp.text]
               /\ client' = client]_vars

\* C19 witness: with a token held, a login answered 401 whose body could not
\* be read has failed with status 401 and the empty text.
C19_Witness ==
  /\ Truthy(client.accessToken)
  /\ task[1].pc = "failed"
  /\ task[1].etrace = <<"login">>
  /\ task[1].error = [kind |-> "auth", status |-> 401, text |-> ""]

\* a token response answers one of the three token POSTs of task t
TokenAnswered(t, resp) ==
  \/ LoginRespond(t, resp)
  \/ RefreshRespondE(t, resp)
  \/ Refresh401Respond(t, resp)

\* TokenState after the 2xx response resp with the lifetime ms
StoredWith(resp, ms) ==
  /\ client'.accessToken = resp.access_token
  /\ client'.refreshToken = IF resp.refresh_token # NULL THEN resp.refresh_token
                            ELSE client.refreshToken
  /\ client'.expiresAt = now + ms

\* C20 as stated: on a successful login or refresh accessToken is the one
\* returned, refreshToken the one returned if any and else the previous one,
\* and expiresAt is now plus the lifetime returned, or plus 600 s when that is
\* absent, zero or not finite.
C20_StoredAsStated ==
  [][\A t \in Tasks :
       task[t].pc \in {"awaitLogin", "awaitRefreshE", "awaitRefresh401"}
       => \A resp \in AuthResponses :
            (TokenAnswered(t, resp) /\ resp.kind = "resp" /\ IsOk(resp.status))
            => StoredWith(resp,
                 IF \/ resp.expires_in.k \in {"absent", "nan", "inf"}
                    \/ resp.expires_in = ExpNum(0)
                   THEN 600 * 1000
                 ELSE resp.expires_in.v * 1000)]_vars

\* C20 amended: the same, with the 600 s also taken when the lifetime
\* returned is negative.
C20_StoredOnSuccess ==
  [][\A t \in Tasks :
       task[t].pc \in {"awaitLogin", "awaitRefreshE", "awaitRefresh401"}
       => \A resp \in AuthResponses :
            (TokenAnswered(t, resp) /\ resp.kind = "resp" /\ IsOk(resp.status))
            => StoredWith(resp,
                 IF \/ resp.expires_in.k \in {"absent", "nan", "inf"}
                    \/ resp.expires_in.v <= 0
                   THEN 600 * 1000
                 ELSE resp.expires_in.v * 1000)]_vars

\* C20 witness: a refresh at t = 575 s answered with access token "B", no
\* refresh token and a lifetime of 60 s left TokenState with "B", the refresh
\* token held before and expiry at 635 s.
C20_Witness ==
  /\ now = 575000
  /\ task[1].refreshE = "ok"
  /\ task[1].postRT = "R"
  /\ client.accessToken = "B"
  /\ client.refreshToken = "R"
  /\ client.expiresAt = 635000

\* a token POST of task t is in flight
AuthInFlight(t) ==
  task[t].pc \in {"awaitLogin", "awaitRefreshE", "awaitRefresh401"}

\* C17: with any number of get() calls interleaved on one client and a token
\* endpoint that answers every login and refresh alike, every write of
\* TokenState stores an issued access token and an expiry later than the
\* moment of the response; when no token POST is in flight and any has been
\* answered the access token is an issued one; every resource GET carries an
\* issued token; and no task fails.
C17_ConcurrentTasksConverge ==
  [][/\ client' # client
        => /\ client'.accessToken \in IssuedTokens
           /\ client'.expiresAt > now
     /\ ((\A t \in Tasks : ~AuthInFlight(t)') /\ client'.expiresAt # 0)
        => client'.accessToken \in IssuedTokens
     /\ \A t \in Tasks :
          /\ task'[t].pc # "failed"
          /\ task'[t].nGet >= 1 => task'[t].bearer1 \in IssuedTokens
          /\ task'[t].nGet = 2 => task'[t].bearer2 \in IssuedTokens]_vars

\* C17 witness: two logins were in flight at once; the first stored "A" and
\* its task is done, the second has then stored "B".
C17_Witness ==
  /\ task[1].pc = "done"
  /\ task[1].etrace = <<"login">>
  /\ task[1].bearer1 = "A"
  /\ task[2].pc = "awaitGet1"
  /\ task[2].etrace = <<"login">>
  /\ task[2].bearer1 = "B"
  /\ client.accessToken = "B"

\* a refresh POST of task t is answered with resp, in ensureToken or after a
\* 401
RefreshAnswered(t, resp) ==
  \/ RefreshRespondE(t, resp)
  \/ Refresh401Respond(t, resp)

\* C21: when the refresh POST is answered with a status outside 200..299,
\* refresh() returns false and raises nothing (ensureToken goes on to its
\* login, get() to its test of the token), and TokenState is what it was.
C21_RefreshFailureReturnsFalse ==
  [][\A t \in Tasks :
       task[t].pc \in {"awaitRefreshE", "awaitRefresh401"}
       => \A resp \in AuthResponses :
            (/\ RefreshAnswered(t, resp)
             /\ resp.kind = "resp"
             /\ (resp.status < 200 \/ resp.status > 299))
            => /\ client' = client
               /\ task'[t].error.kind # "thrown"
               /\ task[t].pc = "awaitRefreshE"
                  => /\ task'[t].refreshE = "fail"
                     /\ task'[t].pc = "awaitLogin"
                     /\ task'[t].error = NoError
               /\ task[t].pc = "awaitRefresh401"
                  => /\ task'[t].r401 = "fail"
                     /\ task'[t].pc \in {"awaitGet2", "failed"}]_vars

\* C21 witness: with "A" and "R" held, the refresh of ensureToken at
\* t = 575 s was answered 401; the tokens are still held and the login is
\* on its way.
C21_Witness ==
  /\ now = 575000
  /\ task[1].pc = "awaitLogin"
  /\ task[1].refreshE = "fail"
  /\ task[1].etrace = <<"refresh", "login">>
  /\ client.accessToken = "A"
  /\ client.refreshToken = "R"

\* C22: whenever a refresh POST is answered 2xx, whatever the lifetime in the
\* answer (absent, zero, negative, positive, not a number), the expiresAt
\* stored is later than the moment the refresh was called, and when the answer
\* has no refresh token the one held at the call is still held.
C22_RefreshSuccessExpiryAhead ==
  [][\A t \in Tasks :
       task[t].pc \in {"awaitRefreshE", "awaitRefresh401"}
       => \A resp \in AuthResponses :
            (/\ RefreshAnswered(t, resp)
             /\ resp.kind = "resp"
             /\ resp.status \in 200..299)
            => /\ client'.expiresAt > task[t].postAt
               /\ client'.expiresAt > now
               /\ resp.refresh_token = NULL
                  => client'.refreshToken = task[t].postRT]_vars

\* C22 witness: a refresh called at t = 575 s with "R" held was answered 2xx
\* without a usable lifetime and without a refresh token: expiry is 600 s
\* ahead and "R" is still held.
C22_Witness ==
  /\ now = 575000
  /\ task[1].refreshE = "ok"
  /\ task[1].postRT = "R"
  /\ client.refreshToken = "R"
  /\ client.expiresAt = 575000 + 600000

\* the caller supplied a value for the string parameter, and not the empty one
SuppliedString(x) == x # Undefined /\ x # Some("")

\* a list tool of task t has sent a resource GET
ListGetSent(t) == task[t].op = "getList" /\ task[t].nGet >= 1

\* C23 as stated: in the URL of every resource GET of a list tool, each of
\* offset, limit, filter (sort, search) appears if and only if the caller
\* supplied it, and not empty.
C23_OnlySuppliedParams ==
  \A t \in Tasks :
    ListGetSent(t) =>
      /\ "offset" \in task[t].params <=> task[t].offset # Undefined
      /\ "limit" \in task[t].params <=> task[t].limit # Undefined
      /\ "filter" \in task[t].params <=> SuppliedString(task[t].filter)

\* C23 amended: filter (sort, search) appears if and only if the caller
\* supplied it, and not empty; offset and limit always appear, and without
\* aggregation they have the caller's value or, when not supplied, 0 and 100.
C23_FilterOmittedOffsetLimitSent ==
  \A t \in Tasks :
    ListGetSent(t) =>
      /\ "filter" \in task[t].params <=> SuppliedString(task[t].filter)
      /\ "filter" \in task[t].params => task[t].query.filter = task[t].filter
      /\ "offset" \in task[t].params
      /\ "limit" \in task[t].params
      /\ ~task[t].all
         => /\ task[t].query.offset = Some(OrDefault(task[t].offset, 0))
            /\ task[t].query.limit = Some(OrDefault(task[t].limit, 100))

\* C23 witness: a list tool invoked with { filter: "" } has its GET in
\* flight with offset=0 and limit=100 in the URL and no filter.
C23_Witness ==
  /\ task[1].pc = "awaitGet1"
  /\ task[1].op = "getList"
  /\ task[1].offset = Undefined
  /\ task[1].limit = Undefined
  /\ task[1].filter = Some("")
  /\ task[1].params = {"offset", "limit"}
  /\ task[1].query.offset = Some(0)
  /\ task[1].query.limit = Some(100)

\* C24: whenever an aggregation has ended because its accumulator reached
\* 1000 items (items beyond 1000 dropped, or further pages left unfetched),
\* the reply of the tool carries a truncation note.
C24_CappedAggregationCarriesNote ==
  \A t \in Tasks :
    (/\ task[t].pc = "done"
     /\ task[t].aggregated
     /\ task[t].accLen >= MAX_ITEMS)
    => task[t].reply.note # NULL

\* a login or refresh has succeeded since construction: expiresAt, 0 at
\* construction, is written by a success only, with a time after 0
HasSucceeded == client.expiresAt # 0

\* C25: in every state accessToken is present if and only if a login or
\* refresh has succeeded since construction: a failure never sets it, and
\* after a success (even one whose answer has no access_token) it is never
\* absent again.
C25_TokenPresentIffSucceeded ==
  (client.accessToken # NULL) <=> HasSucceeded

\* C26: whenever the refresh attempted by ensureToken() has failed, by a
\* status outside 200..299, by a fetch that rejects or by a body that does not
\* parse, the failure has not ended the call: a login POST was sent next,
\* and the call fails only with what that login or a later step raised.
C26_RefreshFailureFallsBackToLogin ==
  \A t \in Tasks :
    task[t].refreshE \in {"fail", "thrown"} =>
      /\ task[t].etrace = <<"refresh", "login">>
      /\ task[t].pc = "failed" => task[t].nGet >= 1 \/ task[t].error.kind \in {"auth", "thrown"}

\* a page request of the aggregation of task t has failed: its get() was
\* rejected, by the login, by a token POST that could not be made, or by the
\* last resource response
PageFailed(t) ==
  task[t].op = "getList" /\ task[t].all /\ task[t].getOutcome = "rejected"

\* C27: when a page request of an aggregation fails (the login fails, or the
\* last resource response is outside 200..299), on the first page or a later
\* one, the invocation fails with that error; nothing accumulated is returned
\* and no further page is asked for.
C27_PageFailureFailsTheCall ==
  [][\A t \in Tasks :
       /\ PageFailed(t)'
          => /\ task'[t].pc = "failed"
             /\ task'[t].result = NoValue
             /\ task'[t].reply = NoReply
             /\ ~task'[t].aggregated
             /\ task'[t].error.kind \in {"auth", "get", "thrown"}
             /\ task'[t].error.kind = "get"
                => /\ ~IsOk(task'[t].last.status)
                   /\ task'[t].error.status = task'[t].last.status
             /\ task'[t].error.kind = "auth"
                => task'[t].etrace[Len(task'[t].etrace)] = "login"
       /\ PageFailed(t)
          => \/ task'[t] = task[t]
             \/ task'[t] = IdleTask]_vars

\* C27 witness: the first page of 100 items came in; the second page request
\* found the token stale, its refresh was refused and so was its login: the
\* invocation has failed with the error of the login and returns nothing.
C27_Witness ==
  /\ task[1].op = "getList"
  /\ task[1].all
  /\ task[1].pc = "failed"
  /\ task[1].nPages = 2
  /\ task[1].accLen = 100
  /\ task[1].etrace = <<"refresh", "login">>
  /\ task[1].error = [kind |-> "auth", status |-> 401, text |-> "denied"]
  /\ task[1].result = NoValue

\* TokenState and Credential of a client
TokenState(c) ==
  [accessToken |-> c.accessToken, refreshToken |-> c.refreshToken,
   expiresAt |-> c.expiresAt]
CredentialOf(c) ==
  [baseUrl |-> c.baseUrl, username |-> c.username, password |-> c.password]

\* this step is a login or refresh POST of some task answered 2xx
TokenGranted ==
  \E t \in Tasks, resp \in AuthResponses :
    /\ AuthInFlight(t)
    /\ resp.kind = "resp"
    /\ IsOk(resp.status)
    /\ TokenAnswered(t, resp)

\* C28: TokenState changes only in a step in which a login or refresh is
\* answered 2xx: no entry of get() or getList(), no resource response, no
\* failed login or refresh, no guardrail and no reply changes it; and the
\* Credential is what the client was constructed with, always.
C28_TokenStateFrame ==
  [][/\ TokenState(client') # TokenState(client) => TokenGranted
     /\ CredentialOf(client') = CredentialOf(client)
     /\ CredentialOf(client') = Credential]_vars

\* C28 witness: an aggregation whose second page request, at t = 575 s, had
\* to refresh the token has ended with its reply built; TokenState holds what
\* that refresh stored and the Credential is the one given.
C28_Witness ==
  /\ now = 575000
  /\ task[1].pc = "done"
  /\ task[1].op = "getList"
  /\ task[1].aggregated
  /\ task[1].nPages = 2
  /\ task[1].refreshE = "ok"
  /\ task[1].reply.json.n = 199
  /\ client.accessToken = "A"
  /\ client.expiresAt = 575000 + 600000
  /\ CredentialOf(client) = Credential

\* the integer l clamped into 1..100
Clamp(l) == IF l < 1 THEN 1 ELSE IF l > 100 THEN 100 ELSE l

\* task t runs an aggregation
Aggregating(t) == task[t].op = "getList" /\ task[t].all

\* C29 as stated: the page size of an aggregation is the caller's limit
\* clamped into 1..100 for every integer limit (1 for those below 1, 0
\* included, 100 for those above 100) and 100 without a limit, and every page
\* request carries it.
C29_PageSizeClamped ==
  \A t \in Tasks :
    Aggregating(t) =>
      /\ task[t].pageLimit = IF task[t].limit = Undefined THEN 100
                             ELSE Clamp(task[t].limit[1])
      /\ task[t].query.limit = Some(task[t].pageLimit)

\* C29 amended: the same, with 100 taken for the limit 0 as it is without a
\* limit.
C29_PageSizeClampedZeroDefault ==
  \A t \in Tasks :
    Aggregating(t) =>
      /\ task[t].pageLimit = IF task[t].limit \in {Undefined, Some(0)} THEN 100
                             ELSE Clamp(task[t].limit[1])
      /\ task[t].query.limit = Some(task[t].pageLimit)
      /\ task[t].nGet >= 1 => "limit" \in task[t].params

\* C29 witness: an aggregation called with limit -5 asks for its third page
\* with page size 1.
C29_Witness ==
  /\ task[1].pc = "awaitGet1"
  /\ task[1].all
  /\ task[1].limit = Some(-5)
  /\ task[1].pageLimit = 1
  /\ task[1].nPages = 3
  /\ task[1].query.limit = Some(1)

\* get() of task t has ended as its last resource response says
EndedAsLastResponse(tr) ==
  IF IsOk(tr.last.status)
    THEN /\ tr.getOutcome = "resolved"
         /\ tr.getValue = tr.last.body
  ELSE /\ tr.pc = "failed"
       /\ tr.getOutcome = "rejected"
       /\ tr.error = [kind |-> "get", status |-> tr.last.status,
                      text |-> IF tr.last.textFails THEN "" ELSE tr.last.text]

\* C30: when the refresh that get() makes after a 401 fails, by a status
\* outside 200..299 or by a fetch or a body that raises, nothing of it reaches
\* the caller: TokenState is as it was, the GET is retried if a token is held
\* and else the call fails with the 401 response, and however the call ends
\* it ends as its last resource response says.
C30_RefreshAfter401Swallowed ==
  [][\A t \in Tasks :
       /\ task[t].pc = "awaitRefresh401"
          => \A resp \in AuthResponses :
               (/\ Refresh401Respond(t, resp)
                /\ (resp.kind = "thrown" \/ ~IsOk(resp.status)))
               => /\ client' = client
                  /\ task'[t].r401 \in {"fail", "thrown"}
                  /\ IF Truthy(client.accessToken)
                       THEN /\ task'[t].pc = "awaitGet2"
                            /\ task'[t].error = NoError
                            /\ task'[t].bearer2 = client.accessToken
                     ELSE /\ task'[t].pc = "failed"
                          /\ task'[t].last.status = 401
                          /\ EndedAsLastResponse(task'[t])
       /\ (task'[t].r401 \in {"fail", "thrown"}
           /\ task'[t].pc \in {"done", "failed"})
          => EndedAsLastResponse(task'[t])]_vars

\* C30 witness: the refresh after the 401 raised; the GET was retried with
\* the token held and answered 200, and the call has resolved to that body.
C30_Witness ==
  /\ task[1].pc = "done"
  /\ task[1].status1 = 401
  /\ task[1].r401 = "thrown"
  /\ task[1].nGet = 2
  /\ task[1].error = NoError
  /\ task[1].result = ArrayPage(2)

\* C31: truncatePayload decides on the serialized length of the original
\* payload alone: every payload over the ceiling comes back marked truncated
\* and with the one fixed note, whatever its shape, and so does one from
\* which the shrink took nothing (an array of at most 1000 elements, an
\* object of at most 50 keys without an items or data array), which comes
\* back as it was and still over the ceiling; a payload within the ceiling
\* has no note.
C31_NoteOnOriginalLengthOnly ==
  \A t \in Tasks :
    task[t].pc = "done" =>
      LET r == task[t].result
          g == task[t].trunc
      IN /\ g.truncated = (StringifyLen(r) > MAX_BYTES)
         /\ g.note = IF StringifyLen(r) > MAX_BYTES THEN TruncationNote ELSE NULL
         /\ task[t].reply = ToolResult(g.payload, g.note)
         /\ (/\ StringifyLen(r) > MAX_BYTES
             /\ \/ r.kind = "array" /\ r.n <= MAX_ITEMS
                \/ /\ r.kind = "object" /\ r.items < 0 /\ r.data < 0
                   /\ RunsLen(r.keys) <= FallbackKeys)
            => /\ g.payload = r
               /\ StringifyLen(g.payload) > MAX_BYTES
               /\ g.note = TruncationNote

\* C31 witness: an object of 49 keys of 25000 characters each, without items
\* or data, is over the ceiling; it has come back whole, still over the
\* ceiling, with the note.
C31_Witness ==
  /\ task[1].pc = "done"
  /\ task[1].result.kind = "object"
  /\ task[1].result.items < 0
  /\ task[1].result.data < 0
  /\ RunsLen(task[1].result.keys) = 49
  /\ task[1].result.w = 25000
  /\ task[1].trunc.payload = task[1].result
  /\ StringifyLen(task[1].trunc.payload) > MAX_BYTES
  /\ task[1].reply.note = TruncationNote

\* the login POSTs among the token POSTs that ensureToken sent
Logins(etrace) == Len(SelectSeq(etrace, LAMBDA p : p = "login"))

\* C32: within one get() at most one login POST is sent; a login that is
\* refused fails the call with its error and no resource GET of that call is
\* sent; and a resource GET is first sent only in the step in which
\* ensureToken returns: the token was fresh on entry, or its refresh or its
\* login was answered with success.
C32_OneLoginAndNoGetAfterAuthFailure ==
  [][\A t \in Tasks :
       /\ Logins(task'[t].etrace) <= 1
       /\ task[t].pc = "awaitLogin"
          => \A resp \in FailAuthResponses :
               (LoginRespond(t, resp) /\ resp.kind = "resp" /\ ~IsOk(resp.status))
               => /\ task'[t].pc = "failed"
                  /\ task'[t].error = AuthError(resp.status, BodyText(resp))
                  /\ task'[t].nGet = 0
                  /\ task'[t].last = NoResp
                  /\ task'[t].bearer1 = NULL
       /\ (task[t].pc # "awaitGet1" /\ task'[t].pc = "awaitGet1")
          => \/ /\ task[t].pc \in {"idle", "delay"}
                /\ EnsureDecision(client, now) = "fresh"
                /\ task'[t].etrace = <<>>
             \/ /\ task[t].pc = "awaitRefreshE"
                /\ \E resp \in FailAuthResponses :
                     RefreshOutcome(resp) = "ok" /\ RefreshRespondE(t, resp)
             \/ /\ task[t].pc = "awaitLogin"
                /\ \E resp \in FailAuthResponses :
                     /\ resp.kind = "resp"
                     /\ IsOk(resp.status)
                     /\ LoginRespond(t, resp)
       /\ task'[t].nGet >= 1
          => /\ task'[t].refreshE \in {"none", "ok", "fail"}
             /\ task'[t].error.kind # "auth"]_vars

\* C32 witness: a by-id call found its token stale; the refresh was refused,
\* the one login after it was refused too, and the call has failed with the
\* login's error without having sent a resource GET.
C32_Witness ==
  /\ task[1].op = "get"
  /\ task[1].pc = "failed"
  /\ task[1].etrace = <<"refresh", "login">>
  /\ task[1].refreshE = "fail"
  /\ task[1].error = AuthError(401, "denied")
  /\ task[1].nGet = 0
  /\ task[1].last = NoResp
  /\ Truthy(client.accessToken)

\* the access token and the expiry of c are those of one granted response of
\* SpecRace's token endpoint, processed at one of the instants of the clock
FromOneResponse(c) ==
  \E resp \in RaceGranted, at \in ConcTimes :
    /\ c.accessToken = resp.access_token
    /\ c.expiresAt = at + 1000 * resp.expires_in.v

\* C33: with the logins and refreshes of any number of get() calls
\* completing in any order on one client, every step that writes TokenState
\* is the processing of one 2xx token response and takes the access token
\* and the expiry from that response at that moment, so that in every state
\* reached the two are those of one response, the last one processed; no
\* other step writes TokenState.
C33_TokenStateFromOneResponse ==
  [][/\ client' # client
        => \E t \in Tasks :
             /\ AuthInFlight(t)
             /\ \E resp \in RaceGranted :
                  /\ TokenAnswered(t, resp)
                  /\ client'.accessToken = resp.access_token
                  /\ client'.expiresAt = now + 1000 * resp.expires_in.v
     /\ client'.expiresAt # 0 => FromOneResponse(client')
     /\ client'.expiresAt = 0 => client' = NewClient]_vars

\* C33 witness: two logins were in flight at once; the one answered first
\* stored "B" with its 900 s, the one answered second "A" with its 600 s, and
\* TokenState holds "A" expiring at 600 s while the first task's GET, still
\* in flight, carries "B".
C33_Witness ==
  /\ now = 0
  /\ task[1].pc = "awaitGet1"
  /\ task[1].etrace = <<"login">>
  /\ task[1].bearer1 = "B"
  /\ task[2].pc = "awaitGet1"
  /\ task[2].etrace = <<"login">>
  /\ task[2].bearer1 = "A"
  /\ client.accessToken = "A"
  /\ client.expiresAt = 600000

\* the paths a by-id tool can ask for: its template with the encoded id in
\* the place of {id}
SubstitutedPaths ==
  {ReplaceId(Endpoints[name].path, x) :
     name \in {n \in ToolNames : ~Endpoints[n].list},
     x \in {"42", "a%2Fb", "%7Bid%7D", ""}}

\* a segment of the path is the placeholder
HasPlaceholder(path) == \E i \in 1..Len(path) : path[i] = IdPlaceholder

\* C34: whatever tool is invoked with whatever input its schema accepts, the
\* path of a resource GET in flight has no {id} left in it, and the path of
\* a by-id tool is its template with the URL-encoded id in the place of {id}.
C34_NoPlaceholderInPath ==
  \A t \in Tasks :
    task[t].pc \in {"awaitGet1", "awaitGet2"} =>
      /\ ~HasPlaceholder(task[t].path)
      /\ task[t].op = "get" => task[t].path \in SubstitutedPaths

\* C35: the VeeamClient of the hybrid and compat builds does what the one of
\* server.js does: from every state reached, on every answer to a login, to
\* a refresh in ensureToken and to a refresh after a 401, it sends the same
\* next request, leaves the same TokenState and ends the call with the same
\* result or error.
C35_BuildsEquivalent ==
  [][\A t \in Tasks :
       /\ task[t].pc = "awaitLogin"
          => \A resp \in AuthResponses :
               LoginRespond(t, resp) => HybridLoginRespond(t, resp)
       /\ task[t].pc = "awaitRefreshE"
          => \A resp \in AuthResponses :
               RefreshRespondE(t, resp) => HybridRefreshRespondE(t, resp)
       /\ task[t].pc = "awaitRefresh401"
          => \A resp \in AuthResponses :
               Refresh401Respond(t, resp) => HybridRefresh401Respond(t, resp)]_vars

====
